---- MODULE Spec2Model ----
(***************************************************************************)
(* A model of playtime (src/playtime.py): the movie cache (Cache), the     *)
(* identification resolver (Playtime.update_cache_directories,            *)
(* update_cache_directory, identify_movie), the metadata refresh           *)
(* (update_cache_moviedata), the cleaning pass (clean_cache) and the save  *)
(* of the cache file (Cache.write_cache_file).                             *)
(*                                                                         *)
(* The filesystem, the metadata provider and the clock are the program's   *)
(* environment: they are variables that environment actions change while   *)
(* no operation of the program is running (the program is single-threaded  *)
(* and synchronous).                                                       *)
(***************************************************************************)
EXTENDS Integers, Sequences, FiniteSets, TLC

VARIABLES
    directories,    \* Cache.directories: moviedir -> imdb id
    movies,         \* Cache.movies: imdb id -> Movie
    disk,           \* the files of the cache directory: name -> content
    basedirs_fs,    \* the basedirs that exist on the filesystem
    moviedirs_fs,   \* the movie directories that exist on the filesystem
    files,          \* moviedir -> the hint candidates (*.txt, *.nfo) inside it
    provider,       \* the metadata provider: which lookups succeed
    now,            \* time.time(), in seconds
    symlinks,       \* the tree under the symlink directory: a set of nodes
    covers,         \* the ids that have a cover file in the cache's cover store
    runs,           \* the runs of create_symlink_dirs so far (history)
    pc,             \* what the process is doing
    writing,        \* where a stepwise Cache.write_cache_file stands ("": not running)
    args,           \* the arguments of the running update_cache call
    basedirs_left,  \* update_cache_directories: basedirs not yet listed
    moviedirs_left, \* update_cache_directories: listed moviedirs not yet processed
    passes,         \* identification passes completed since anything last changed
    given,          \* the basedirs given to the passes completed so far (history)
    last,           \* what the latest operation did (history, for the properties)
    building,       \* create_symlink_dirs step by step: where the run is
    posters         \* what poster.jpg is in each movie directory

vars ==
    << directories, movies, disk, basedirs_fs, moviedirs_fs, files, provider, now,
       symlinks, covers, runs, pc, writing, args, basedirs_left, moviedirs_left, passes, given, last,
       building, posters >>

cache_vars == << directories, movies >>
env_vars ==
    << basedirs_fs, moviedirs_fs, files, provider, now, symlinks, covers, runs, building, posters >>
env_vars_but_building ==
    << basedirs_fs, moviedirs_fs, files, provider, now, symlinks, covers, runs, posters >>
pass_vars == << args, basedirs_left, moviedirs_left, given >>

-----------------------------------------------------------------------------
(* The bounded universe.                                                   *)

None == "None"
\* A file of the cache directory: whether it exists, and its text.
Absent == [exists |-> FALSE, text |-> << >>]
File(text) == [exists |-> TRUE, text |-> text]

\* Two titles of the provider's catalogue (the ids of src/test_playtime.py).
Commando == "tt0088944"
Jackass == "tt11466222"
Ids == {Commando, Jackass}

Basedirs == {"movies1", "movies2"}

Path(parent, name) == [parent |-> parent, name |-> name]

\* Two copies of one movie under one basename in two basedirs, and a directory
\* whose name holds no title.
Moviedirs ==
    { Path("movies1", "commando"), Path("movies2", "commando"),
      Path("movies2", "1080p") }

\* A hint candidate (*.txt, *.nfo) inside a movie directory: its name, the first
\* external id its text holds (None when it holds none) and whether it is larger
\* than 1 MiB.
Textfile(name, id, big) == [name |-> name, id |-> id, big |-> big]

\* What a movie directory may hold (a set of Textfile, one per name): the copy
\* under movies1 never holds a hint, the directory without a title at most an
\* imdb.txt.
Contents(moviedir) ==
    IF moviedir.parent = "movies1" THEN { {} }
    ELSE IF moviedir.name = "1080p"
    THEN { {}, {Textfile("imdb.txt", Jackass, FALSE)} }
    ELSE { {},
           {Textfile("imdb.txt", Jackass, FALSE)},
           {Textfile("imdb.txt", Jackass, TRUE)},
           {Textfile("movie.nfo", Jackass, FALSE)},
           {Textfile("info.txt", Commando, FALSE), Textfile("imdb.txt", Jackass, FALSE)} }

\* The provider: what a title search does and the ids whose lookup succeeds.
Providers ==
    { [search |-> "ok", fetchable |-> Ids],
      [search |-> "ok", fetchable |-> {Commando}],
      [search |-> "empty", fetchable |-> Ids],
      [search |-> "error", fetchable |-> {}] }

\* The arguments of update_cache. search_input is what the operator types at the
\* confirmation prompt ("" is a bare Enter). force_update is the --force-update of
\* the command line, which main does not hand to update_cache: nothing reads it.
NoArgs ==
    [ new_basedirs |-> {}, search_confirmation |-> FALSE, search_input |-> "",
      skip_textfiles |-> FALSE, skip_imdb_search |-> FALSE,
      skip_cache_clean |-> FALSE, update_age_days |-> 1, force_update |-> FALSE ]

Arguments ==
    { NoArgs,
      [NoArgs EXCEPT !.new_basedirs = Basedirs],
      [NoArgs EXCEPT !.skip_textfiles = TRUE],
      [NoArgs EXCEPT !.skip_imdb_search = TRUE],
      [NoArgs EXCEPT !.skip_cache_clean = TRUE] }

-----------------------------------------------------------------------------
(* Functions as sets of pairs, and sequences of a set.                     *)

Remove(f, keys) == [k \in (DOMAIN f) \ keys |-> f[k]]

Put(f, key, value) == [k \in (DOMAIN f) \cup {key} |-> IF k = key THEN value ELSE f[k]]

Values(f) == {f[k] : k \in DOMAIN f}

EmptyMap == [k \in {} |-> None]

\* Every ordering of a finite set.
Orderings(S) ==
    {s \in [1..Cardinality(S) -> S] : \A i, j \in 1..Cardinality(S) : s[i] = s[j] => i = j}

-----------------------------------------------------------------------------
(* Movie and the collaborators.                                            *)

\* A Movie. The fields other than the id and the fetch timestamp are the
\* provider's data for the id; data names them.
Movie(imdb_id, data_epoch) ==
    [imdb_id |-> imdb_id, data |-> <<"imdb", imdb_id>>, data_epoch |-> data_epoch]

\* No Movie (Python's None where a Movie is expected).
NoMovie == [imdb_id |-> None, data |-> << >>, data_epoch |-> 0]

\* A third title, with the title and the year of the first.
Namesake == "tt0000001"

\* The attributes of a Movie: the fields of the dataclass, its properties and
\* its methods.
MovieAttributes ==
    { "imdb_id", "title", "primary_image", "year", "language_codes", "genres",
      "rating", "vote_count", "runtime", "top_ranking", "bottom_ranking",
      "data_epoch", "directors", "actors",
      "cover_filename", "imdb_url", "short", "dirname", "data_age_days",
      "get_category", "create_from_imdb_id", "create_from_cinemagoerng" }

\* The data of the titles; none names the optional fields that are None in the
\* Movie: the rankings of a title that is in no ranking, and the directors and
\* actors of a Movie read from a cache file that was written without them.
Catalogue ==
    [id \in Ids \cup {Namesake} |->
        IF id = Commando
        THEN [ title |-> <<"Commando">>, year |-> 1985, runtime |-> 90,
               genres |-> { <<"Action">>, <<"Thriller">> },
               directors |-> { <<"M", "ark L. Lester">> },
               actors |-> { <<"A", "rnold Schwarzenegger">>, <<"A", "lyssa Milano">> },
               primary_image |-> "https://covers/commando.jpg",
               language_codes |-> { "en" }, rating |-> "6.7", vote_count |-> 180000,
               none |-> {"top_ranking", "bottom_ranking"} ]
        ELSE IF id = Jackass
        THEN [ title |-> <<"Jackass Forever">>, year |-> 2022, runtime |-> 96,
               genres |-> { <<"Action">>, <<"Comedy">> },
               directors |-> { <<"J", "eff Tremaine">> },
               actors |-> { <<"J", "ohnny Knoxville">> },
               primary_image |-> "https://covers/jackass.jpg",
               language_codes |-> { "en" }, rating |-> "6.7", vote_count |-> 90000,
               none |-> {"top_ranking", "bottom_ranking"} ]
        ELSE [ title |-> <<"Commando">>, year |-> 1985, runtime |-> 100,
               genres |-> { <<"Action">> },
               directors |-> { },
               actors |-> { },
               primary_image |-> "",
               language_codes |-> { }, rating |-> "None", vote_count |-> 0,
               none |-> {"top_ranking", "bottom_ranking", "directors", "actors"} ] ]

\* hasattr(movie, name), and whether the attribute is None.
hasattr(movie, name) == name \in MovieAttributes
is_none(movie, name) == name \in Catalogue[movie.data[2]].none

\* getattr(movie, name): the fields of a Movie are the provider's data of its id.
getattr(movie, name) == Catalogue[movie.data[2]][name]

\* Movie.create_from_imdb_id: the provider's record, stamped with the time of the
\* fetch, or none when the lookup fails or returns an unsupported type.
create_from_imdb_id(imdb_id) ==
    IF imdb_id \in provider.fetchable THEN Movie(imdb_id, now) ELSE NoMovie

\* The provider's catalogue: the first search result of a title.
SearchResults == [title \in {"Commando", "Jackass Forever"} |->
    IF title = "Commando" THEN Commando ELSE Jackass]

\* Playtime.imdb_title_search: the first result's id; None when the search fails
\* or finds nothing.
imdb_title_search(title) ==
    IF provider.search = "error" THEN None
    ELSE IF provider.search = "empty" \/ title \notin DOMAIN SearchResults THEN None
    ELSE SearchResults[title]

\* PTN.parse of a directory name: the title and the year it finds (None: none).
PTN_parse(name) ==
    IF name = "commando" THEN [title |-> "Commando", year |-> None]
    ELSE [title |-> None, year |-> None]

\* The extension of a file name.
Suffix(name) == IF name = "movie.nfo" THEN "nfo" ELSE "txt"

\* A find_textfiles that globs *.txt alone.
find_textfiles_txt_only(moviedir) ==
    Orderings({f \in files[moviedir] : Suffix(f.name) = "txt" /\ ~f.big})

\* Playtime.find_textfiles with the default extensions: the files of each
\* extension in turn, those larger than 1 MiB left out. The order in which glob
\* yields the files of one extension is the filesystem's: every order is possible.
find_textfiles(moviedir) ==
    LET of(ext) == {f \in files[moviedir] : Suffix(f.name) = ext /\ ~f.big}
    IN {txt \o nfo : txt \in Orderings(of("txt")), nfo \in Orderings(of("nfo"))}

\* Playtime.find_imdb_id_in_textfiles: the first id found, in file order.
find_imdb_id_in_textfiles(textfiles) ==
    LET hits == {i \in 1..Len(textfiles) : textfiles[i].id # None}
    IN IF hits = {} THEN None
       ELSE textfiles[CHOOSE i \in hits : \A j \in hits : i <= j].id

\* The list [moviedir / "imdb.txt"] as find_imdb_id_in_textfiles reads it: the
\* file when it exists, whatever its size.
imdb_txt(moviedir) ==
    LET found == {f \in files[moviedir] : f.name = "imdb.txt"}
    IN IF found = {} THEN << >> ELSE << CHOOSE f \in found : TRUE >>

-----------------------------------------------------------------------------
(* The identification resolver.                                            *)

\* The search string built from a parsed directory name.
SearchPrompt(title, year) == IF year # None THEN title \o " " \o year ELSE title

\* Playtime.identify_movie. textfiles is the list find_textfiles returns and
\* search_input what the operator types when asked to confirm a search. The
\* result: the Movie (NoMovie when there is none), the id found in a textfile, whether
\* a title search was issued, and the ids looked up at the provider.
identify_movie(moviedir, imdb_id, skip_imdb_search, skip_textfiles, search_confirmation, textfiles, search_input) ==
    LET textfile_imdb_id ==
            IF imdb_id = "" /\ ~skip_textfiles
            THEN find_imdb_id_in_textfiles(textfiles) ELSE None
        parsed == PTN_parse(moviedir.name)
        searching == imdb_id = "" /\ ~skip_imdb_search
        prompt ==
            IF search_confirmation /\ search_input # ""
            THEN search_input ELSE SearchPrompt(parsed.title, parsed.year)
        search_imdb_id == imdb_title_search(prompt)
        found == IF searching /\ search_imdb_id # None THEN search_imdb_id ELSE imdb_id
    IN  IF textfile_imdb_id # None
        THEN \* line 343: the lookup's result is returned as it is
             [ movie |-> create_from_imdb_id(textfile_imdb_id),
               hint_id |-> textfile_imdb_id, searched |-> FALSE,
               fetched |-> {textfile_imdb_id} ]
        ELSE IF searching /\ parsed.title = None
        THEN [movie |-> NoMovie, hint_id |-> None, searched |-> FALSE, fetched |-> {}]
        ELSE IF found = ""
        THEN [movie |-> NoMovie, hint_id |-> None, searched |-> searching, fetched |-> {}]
        ELSE \* line 378: dict.get evaluates its default, the lookup, in every case
             [ movie |-> IF found \in DOMAIN movies
                         THEN movies[found] ELSE create_from_imdb_id(found),
               hint_id |-> None, searched |-> searching, fetched |-> {found} ]

\* Cache.write_cache_file's document: str() of every path, asdict() of every Movie.
\* str(path) and Path(text): the names of the path, joined and split at os.sep.
os_sep == "/"
PathStr(path) == <<path.parent, os_sep, path.name>>

\* A Path that keeps the last name only.
PathOfName(text) == Path("", text[Len(text)])

PathOf(text) == Path(text[1], text[3])

\* The fields of the dataclass Movie, by the type of their values.
StrFields == {"imdb_id", "title", "primary_image", "rating"}
IntFields == {"year", "vote_count", "runtime", "top_ranking", "bottom_ranking", "data_epoch"}
ListFields == {"language_codes", "genres", "directors", "actors"}
Fields == StrFields \cup IntFields \cup ListFields

\* The value of a field of a Movie, with its Python type.
field_value(movie, field) ==
    IF field = "imdb_id" THEN <<"str", movie.imdb_id>>
    ELSE IF field = "data_epoch" THEN <<"int", movie.data_epoch>>
    ELSE IF is_none(movie, field) THEN <<"NoneType">>
    ELSE IF field \in ListFields THEN <<"list", getattr(movie, field)>>
    ELSE IF field \in IntFields THEN <<"int", getattr(movie, field)>>
    ELSE <<"str", getattr(movie, field)>>

\* dataclasses.asdict: the dict of the fields of a Movie.
asdict(movie) == [field \in Fields |-> field_value(movie, field)]

\* json.dumps and json.loads on a value: str and string, int and number, list
\* and array, None and null.
dumps(value) ==
    IF value[1] = "str" THEN <<"string", value[2]>>
    ELSE IF value[1] = "int" THEN <<"number", value[2]>>
    ELSE IF value[1] = "list" THEN <<"array", value[2]>>
    ELSE <<"null">>

loads(value) ==
    IF value[1] = "string" THEN <<"str", value[2]>>
    ELSE IF value[1] = "number" THEN <<"int", value[2]>>
    ELSE IF value[1] = "array" THEN <<"list", value[2]>>
    ELSE <<"NoneType">>

\* Movie(**values): the Movie with these fields. data names the title whose
\* data the fields other than the id and the fetch timestamp are.
MovieOf(values) ==
    LET imdb_id == values["imdb_id"][2]
        data_epoch == values["data_epoch"][2]
        same == { id \in DOMAIN Catalogue :
                    asdict([imdb_id |-> imdb_id, data |-> <<"imdb", id>>,
                            data_epoch |-> data_epoch]) = values }
    IN  IF same = {} THEN [imdb_id |-> imdb_id, data |-> << >>, data_epoch |-> data_epoch]
        ELSE [imdb_id |-> imdb_id, data |-> <<"imdb", CHOOSE id \in same : TRUE>>,
              data_epoch |-> data_epoch]

moviedict(dirs, mvs) ==
    [ directories |-> {<<PathStr(d), dirs[d]>> : d \in DOMAIN dirs},
      movies |-> {<<id, asdict(mvs[id])>> : id \in DOMAIN mvs} ]

\* The text of the document, as the two members it is written in.
moviejson(dirs, mvs) ==
    << <<"directories", moviedict(dirs, mvs).directories>>,
       <<"movies", { <<kv[1], [field \in Fields |-> dumps(kv[2][field])]>> :
                        kv \in moviedict(dirs, mvs).movies }>> >>

-----------------------------------------------------------------------------
(* The cache file.                                                         *)

\* Path.with_suffix on a file name of the cache directory.
FileName(stem, suffix) == [stem |-> stem, suffix |-> suffix]
with_suffix(name, suffix) == [name EXCEPT !.suffix = suffix]

\* Cache.cachefile: <cachedir>/playtime.cache.
cachefile_name == FileName("playtime", ".cache")

\* A write_cache_file that writes the cache file in place.
cachepath_in_place == cachefile_name

\* Cache.write_cache_file: the file that is written, and the file it replaces.
cachepath == with_suffix(cachefile_name, ".newcache")
target == with_suffix(cachepath, ".cache")

CacheFiles == {FileName("playtime", ".cache"), FileName("playtime", ".newcache")}

\* The steps of Cache.write_cache_file on the files fs: open("w") creates or
\* truncates the file, write appends to it, replace renames it over the target.
opened(fs) == [fs EXCEPT ![cachepath] = File(<< >>)]

appended(fs, text) == [fs EXCEPT ![cachepath] = File(fs[cachepath].text \o text)]

replaced(fs) ==
    [ f \in DOMAIN fs |->
        IF f = target THEN fs[cachepath] ELSE IF f = cachepath THEN Absent ELSE fs[f] ]

\* Cache.write_cache_file run to its end.
write_cache_file(fs, dirs, mvs) == replaced(appended(opened(fs), moviejson(dirs, mvs)))

\* The content of the cache file.
cachefile == disk[cachefile_name]

\* A consistency check that is content only with a directory without an imdb.txt id.
already_identified_without_id(moviedir, textfile_imdb_id) ==
    /\ moviedir \in DOMAIN directories
    /\ textfile_imdb_id = None

\* Lines 478-495 of update_cache_directory: a directory of the cache whose imdb.txt
\* holds no id, or the cached id, needs no identification.
already_identified(moviedir, textfile_imdb_id) ==
    /\ moviedir \in DOMAIN directories
    /\ \/ textfile_imdb_id = None
       \/ textfile_imdb_id = directories[moviedir]

\* A failure that forgets the directory.
skipped_forgets(moviedir) ==
    [directories |-> Remove(directories, {moviedir}), movies |-> movies]

\* Lines 506-508 of update_cache_directory: no Movie, the cache is left as it is.
skipped(moviedir) == [directories |-> directories, movies |-> movies]

\* Lines 510-513 of update_cache_directory: the directory is recorded, and the
\* Movie unless the cache holds one for the id.
recorded_replacing(moviedir, movie) ==
    [ directories |-> Put(directories, moviedir, movie.imdb_id),
      movies |-> Put(movies, movie.imdb_id, movie) ]

recorded(moviedir, movie) ==
    [ directories |-> Put(directories, moviedir, movie.imdb_id),
      movies |-> IF movie.imdb_id \in DOMAIN movies
                 THEN movies ELSE Put(movies, movie.imdb_id, movie) ]

\* Playtime.update_cache_directory on moviedir under the arguments a. The result:
\* the cache afterwards, the value returned, whether the cache file was written,
\* and what was read and asked on the way.
update_cache_directory(moviedir, a, textfiles) ==
    LET known == moviedir \in DOMAIN directories
        textfile_imdb_id ==
            IF known THEN find_imdb_id_in_textfiles(imdb_txt(moviedir)) ELSE None
        untouched(result) ==
            [ directories |-> directories, movies |-> movies, result |-> result,
              wrote |-> FALSE, cached |-> IF known THEN directories[moviedir] ELSE None,
              check_id |-> textfile_imdb_id, hint_id |-> None, searched |-> FALSE,
              fetched |-> {}, identified |-> FALSE ]
        got == identify_movie(moviedir,
                              IF textfile_imdb_id # None THEN textfile_imdb_id ELSE "",
                              a.skip_imdb_search, a.skip_textfiles,
                              a.search_confirmation, textfiles, a.search_input)
        seen == [ untouched(FALSE) EXCEPT !.hint_id = got.hint_id,
                  !.searched = got.searched, !.fetched = got.fetched,
                  !.identified = TRUE ]
    IN  IF already_identified(moviedir, textfile_imdb_id)
        THEN untouched(TRUE)
        ELSE IF got.movie = NoMovie
        THEN [ seen EXCEPT !.directories = skipped(moviedir).directories,
                           !.movies = skipped(moviedir).movies ]
        ELSE [ seen EXCEPT !.directories = recorded(moviedir, got.movie).directories,
                           !.movies = recorded(moviedir, got.movie).movies,
                           !.result = TRUE, !.wrote = TRUE ]

-----------------------------------------------------------------------------
(* Refresh, cleaning, load.                                                *)

SecondsPerDay == 86400

\* Movie.data_age_days: whole days since the fetch.
data_age_days(movie) == (now - movie.data_epoch) \div SecondsPerDay

\* A refresh that takes a Movie only when it is older than the limit.
needs_updates_older(update_age_days) ==
    {id \in DOMAIN movies : data_age_days(movies[id]) > update_age_days}

\* Playtime.update_cache_moviedata: the ids it looks up.
needs_updates(update_age_days) ==
    {id \in DOMAIN movies : data_age_days(movies[id]) >= update_age_days}

\* A refresh that drops the Movie whose lookup fails.
update_cache_moviedata_dropping(update_age_days) ==
    [ id \in {i \in DOMAIN movies :
                i \in needs_updates(update_age_days) => create_from_imdb_id(i) # NoMovie} |->
        IF id \in needs_updates(update_age_days)
        THEN create_from_imdb_id(id) ELSE movies[id] ]

\* Playtime.update_cache_moviedata: the movies afterwards.
update_cache_moviedata(update_age_days) ==
    [ id \in DOMAIN movies |->
        IF id \in needs_updates(update_age_days) /\ create_from_imdb_id(id) # NoMovie
        THEN create_from_imdb_id(id) ELSE movies[id] ]

\* Playtime.clean_cache: both lists of removals are drawn up first, from the cache
\* as it is on entry, and applied afterwards.
clean_cache_removed_directories == {d \in DOMAIN directories : d \notin moviedirs_fs}

\* A clean pass that drops the Movie of every directory it removes, without a look
\* at the directories that stay.
clean_cache_removed_movies_of_removed ==
    {id \in DOMAIN movies :
        \/ id \notin Values(directories)
        \/ \E d \in clean_cache_removed_directories : directories[d] = id}

clean_cache_removed_movies == {id \in DOMAIN movies : id \notin Values(directories)}

\* json.loads of a file's text: the document; raised when the text does not parse.
json_loads(text) ==
    IF Len(text) = 2
    THEN [raised |-> FALSE, directories |-> text[1][2], movies |-> text[2][2]]
    ELSE [raised |-> TRUE, directories |-> {}, movies |-> {}]

\* The file holds a whole document.
Complete(file) == file.exists /\ ~json_loads(file.text).raised

\* Cache.read_cache_file into a fresh Cache, file being the cache file. raised:
\* the KeyError of line 103 on a file that does not parse.
loaded(file) ==
    IF ~file.exists
    THEN [raised |-> FALSE, directories |-> EmptyMap, movies |-> EmptyMap]
    ELSE LET cache == json_loads(file.text)
         IN  IF cache.raised
             THEN [raised |-> TRUE, directories |-> EmptyMap, movies |-> EmptyMap]
             ELSE [ raised |-> FALSE,
                    directories |->
                        [d \in {PathOf(kv[1]) : kv \in cache.directories} |->
                            (CHOOSE kv \in cache.directories : PathOf(kv[1]) = d)[2]],
                    movies |->
                        [id \in {kv[1] : kv \in cache.movies} |->
                            MovieOf([field \in Fields |->
                                loads((CHOOSE kv \in cache.movies : kv[1] = id)[2][field])])] ]

read_cache_file == loaded(cachefile)

-----------------------------------------------------------------------------
(* History variables.                                                      *)

Nothing ==
    [ op |-> None, moviedir |-> Path("", ""), cached |-> None, check_id |-> None,
      hint_id |-> None, identified |-> FALSE, searched |-> FALSE, fetched |-> {},
      result |-> FALSE, wrote |-> FALSE, removed_directories |-> {},
      removed_movies |-> {}, imdb_id |-> None, counter |-> 0,
      order |-> << >>, categories |-> << >>, relative |-> FALSE, purged |-> {},
      save_covers_in_moviedirs |-> FALSE ]

\* What a run of create_symlink_dirs started on: again, the tree that a complete
\* run left when it was given what this run is given; partial, a tree that a
\* killed run left with entries in a category asked for now; other_cache, a tree
\* that the latest run left for another cache.
FreshStart == [again |-> FALSE, partial |-> FALSE, other_cache |-> FALSE]

\* No run of create_symlink_dirs yet: whether the latest run ran to its end, what
\* it was given, the tree it left and what it started on.
NoBuilt ==
    [ ran |-> FALSE, directories |-> EmptyMap, movies |-> EmptyMap, covers |-> {},
      categories |-> << >>, tree |-> {}, start |-> FreshStart ]

\* No run of create_symlink_dirs is under way. order is the order of the dict of
\* the directories.
NotBuilding ==
    [ phase |-> "none", asked |-> << >>, categories |-> << >>, things |-> {},
      thing |-> << >>, moviedirs |-> << >>, letterdirs |-> {}, start |-> FreshStart,
      order |-> << >>, built |-> NoBuilt ]

-----------------------------------------------------------------------------
(* The environment.                                                        *)

Init ==
    /\ directories = EmptyMap
    /\ movies = EmptyMap
    /\ disk = [f \in CacheFiles |-> Absent]
    /\ basedirs_fs = Basedirs
    /\ moviedirs_fs = Moviedirs
    /\ files = [d \in Moviedirs |-> {}]
    /\ provider = [search |-> "ok", fetchable |-> Ids]
    /\ now = 0
    /\ symlinks = {}
    /\ covers = {}
    /\ runs = 0
    /\ pc = "idle"
    /\ writing = ""
    /\ args = NoArgs
    /\ basedirs_left = {}
    /\ moviedirs_left = {}
    /\ passes = 0
    /\ given = {}
    /\ last = Nothing
    /\ building = NotBuilding
    /\ posters = [d \in Moviedirs |-> "absent"]

\* The environment changes between the operations of the program.
Changed ==
    /\ pc = "idle"
    /\ passes' = 0
    /\ last' = Nothing
    /\ writing = ""
    /\ UNCHANGED << cache_vars, disk, symlinks, runs, building, posters, pc, writing, pass_vars >>

\* The basedirs that may vanish with what they hold; a movie directory of
\* another basedir vanishes on its own.
RemovableBasedirs == {"movies1"}

RemoveMoviedir ==
    \E d \in {m \in moviedirs_fs : m.parent \notin RemovableBasedirs} :
        /\ Changed
        /\ moviedirs_fs' = moviedirs_fs \ {d}
        /\ files' = [files EXCEPT ![d] = {}]
        /\ UNCHANGED << basedirs_fs, provider, now, covers >>

RemoveBasedir ==
    \E b \in basedirs_fs \cap RemovableBasedirs :
        /\ Changed
        /\ basedirs_fs' = basedirs_fs \ {b}
        /\ moviedirs_fs' = {d \in moviedirs_fs : d.parent # b}
        /\ files' = [d \in Moviedirs |-> IF d.parent = b THEN {} ELSE files[d]]
        /\ UNCHANGED << provider, now, covers >>

CreateMoviedir ==
    \E d \in Moviedirs \ moviedirs_fs :
        /\ Changed
        /\ basedirs_fs' = basedirs_fs \cup {d.parent}
        /\ moviedirs_fs' = moviedirs_fs \cup {d}
        /\ UNCHANGED << files, provider, now, covers >>

WriteTextfiles ==
    \E d \in moviedirs_fs : \E c \in Contents(d) :
        /\ Changed
        /\ files' = [files EXCEPT ![d] = c]
        /\ UNCHANGED << basedirs_fs, moviedirs_fs, provider, now, covers >>

ProviderChanges ==
    \E p \in Providers :
        /\ Changed
        /\ provider' = p
        /\ UNCHANGED << basedirs_fs, moviedirs_fs, files, now, covers >>

-----------------------------------------------------------------------------
(* The program.                                                            *)

\* The passes counted over an unchanged filesystem and provider.
MaxPasses == 2

\* The arguments that skip no step of the resolver.
DefaultFlags(a) == ~a.skip_textfiles /\ ~a.skip_imdb_search /\ ~a.search_confirmation

\* A pass that lists the new basedirs alone.
basedirs_given_only(new_basedirs) == new_basedirs

\* Lines 442-443 of update_cache_directories: the parents of the directories of
\* the cache, and the new basedirs.
basedirs(new_basedirs) == {d.parent : d \in DOMAIN directories} \cup new_basedirs

\* Playtime.update_cache is called: update_cache_directories starts with the
\* parents of the cached directories and the new basedirs.
UpdateCache ==
    \E a \in Arguments :
        /\ pc = "idle"
        /\ writing = ""
        /\ pc' = "update_cache_directories"
        /\ args' = a
        /\ basedirs_left' = basedirs(a.new_basedirs)
        /\ given' = given
        /\ moviedirs_left' = {}
        /\ passes' = IF DefaultFlags(a) /\ a.new_basedirs = {} THEN passes ELSE 0
        /\ last' = [Nothing EXCEPT !.op = "update_cache"]
        /\ UNCHANGED << cache_vars, disk, writing, env_vars >>

\* playtime update --force-update: main calls update_cache as it does without
\* the option.
UpdateForced ==
    /\ pc = "idle"
    /\ writing = ""
    /\ pc' = "update_cache_directories"
    /\ args' = [NoArgs EXCEPT !.force_update = TRUE]
    /\ basedirs_left' = basedirs({})
    /\ given' = given
    /\ moviedirs_left' = {}
    /\ passes' = 0
    /\ last' = [Nothing EXCEPT !.op = "update_cache"]
    /\ UNCHANGED << cache_vars, disk, writing, env_vars >>

\* The process ends in an exception, or is killed: its memory is gone.
Dies(why) ==
    /\ pc' = "crashed"
    /\ writing' = ""
    /\ directories' = EmptyMap
    /\ movies' = EmptyMap
    /\ args' = NoArgs
    /\ basedirs_left' = {}
    /\ moviedirs_left' = {}
    /\ given' = given
    /\ passes' = 0
    /\ last' = [Nothing EXCEPT !.op = why]

\* The loop over the basedirs reaches the next one and lists it; iterdir raises
\* on a basedir that does not exist, which ends the process.
ListBasedir ==
    \E b \in basedirs_left :
        /\ pc = "update_cache_directories"
        /\ writing = ""
        /\ moviedirs_left = {}
        /\ IF b \in basedirs_fs
           THEN /\ basedirs_left' = basedirs_left \ {b}
                /\ moviedirs_left' = {d \in moviedirs_fs : d.parent = b}
                /\ last' = [Nothing EXCEPT !.op = "iterdir"]
                /\ UNCHANGED << cache_vars, pc, writing, args, passes, given >>
           ELSE Dies("FileNotFoundError")
        /\ UNCHANGED << disk, env_vars >>

\* What Playtime.update_cache_directory does to the cache in memory, r being its
\* result on moviedir d.
InMemory(d, r) ==
    /\ pc = "update_cache_directories"
    /\ writing = ""
    /\ moviedirs_left' = moviedirs_left \ {d}
    /\ directories' = r.directories
    /\ movies' = r.movies
    /\ last' =
          [ Nothing EXCEPT !.op = "update_cache_directory", !.moviedir = d,
            !.cached = r.cached, !.check_id = r.check_id, !.hint_id = r.hint_id,
            !.identified = r.identified, !.searched = r.searched,
            !.fetched = r.fetched, !.result = r.result, !.wrote = r.wrote ]
    /\ UNCHANGED << env_vars, pc, args, basedirs_left, passes, given >>

\* Playtime.update_cache_directory on the next moviedir of the listing, the write
\* of the cache file included.
UpdateCacheDirectory ==
    \E d \in moviedirs_left : \E textfiles \in find_textfiles(d) :
        LET r == update_cache_directory(d, args, textfiles)
        IN  /\ InMemory(d, r)
            /\ disk' = IF r.wrote THEN write_cache_file(disk, r.directories, r.movies)
                       ELSE disk
            /\ UNCHANGED writing

\* update_cache_directories returns and update_cache goes on with
\* Playtime.update_cache_moviedata.
UpdateCacheMoviedata ==
    /\ pc = "update_cache_directories"
    /\ writing = ""
    /\ basedirs_left = {}
    /\ moviedirs_left = {}
    /\ movies' = update_cache_moviedata(args.update_age_days)
    /\ pc' = IF args.skip_cache_clean THEN "idle" ELSE "clean_cache"
    /\ args' = IF args.skip_cache_clean THEN NoArgs ELSE args
    /\ passes' =
          IF DefaultFlags(args) /\ movies' = movies
          THEN (IF passes < MaxPasses THEN passes + 1 ELSE passes) ELSE 0
    /\ last' = [ Nothing EXCEPT !.op = "update_cache_moviedata",
                                !.fetched = needs_updates(args.update_age_days) ]
    /\ given' = given \cup args.new_basedirs
    /\ UNCHANGED << directories, disk, writing, env_vars, basedirs_left, moviedirs_left >>

\* What Playtime.clean_cache does to the cache in memory, as the last step of
\* update_cache or called on its own.
CleanInMemory ==
    /\ pc \in {"idle", "clean_cache"}
    /\ writing = ""
    /\ directories' = Remove(directories, clean_cache_removed_directories)
    /\ movies' = Remove(movies, clean_cache_removed_movies)
    /\ pc' = "idle"
    /\ args' = NoArgs
    /\ passes' = IF cache_vars' = cache_vars THEN passes ELSE 0
    /\ last' =
          [ Nothing EXCEPT !.op = "clean_cache",
            !.removed_directories = clean_cache_removed_directories,
            !.removed_movies = clean_cache_removed_movies ]
    /\ UNCHANGED << env_vars, basedirs_left, moviedirs_left, given >>

\* Playtime.clean_cache, the write of the cache file included.
CleanCache ==
    /\ CleanInMemory
    /\ disk' = write_cache_file(disk, directories', movies')
    /\ UNCHANGED writing

\* A count that stops at the first directory of the id.
count_found(imdb_id) == IF imdb_id \in Values(directories) THEN 1 ELSE 0

\* Cache.count: the loop over directories.values(), rest being the directories
\* still to come.
RECURSIVE count_loop(_, _, _)
count_loop(rest, imdb_id, counter) ==
    IF rest = {} THEN counter
    ELSE LET d == CHOOSE x \in rest : TRUE
         IN  count_loop(rest \ {d}, imdb_id,
                        IF directories[d] = imdb_id THEN counter + 1 ELSE counter)

count(imdb_id) == count_loop(DOMAIN directories, imdb_id, 0)

\* Cache.count is called.
Count ==
    \E imdb_id \in Ids :
        /\ pc = "idle"
        /\ writing = ""
        /\ last' = [Nothing EXCEPT !.op = "count", !.imdb_id = imdb_id,
                                   !.counter = count(imdb_id)]
        /\ UNCHANGED << cache_vars, disk, env_vars, pc, writing, pass_vars, passes >>

\* The process ends (or has ended in an exception) and a new one starts:
\* Playtime.__init__ reads the cache file.
Restart ==
    /\ pc \in {"idle", "crashed"}
    /\ writing = ""
    /\ IF read_cache_file.raised
       THEN Dies("KeyError")
       ELSE /\ directories' = read_cache_file.directories
            /\ movies' = read_cache_file.movies
            /\ pc' = "idle"
            /\ passes' = IF cache_vars' = cache_vars THEN passes ELSE 0
            /\ last' = [Nothing EXCEPT !.op = "read_cache_file"]
            /\ UNCHANGED << writing, pass_vars >>
    /\ UNCHANGED << disk, env_vars >>

Next ==
    \/ RemoveMoviedir
    \/ RemoveBasedir
    \/ CreateMoviedir
    \/ WriteTextfiles
    \/ ProviderChanges
    \/ UpdateCache
    \/ ListBasedir
    \/ UpdateCacheDirectory
    \/ UpdateCacheMoviedata
    \/ CleanCache
    \/ Count
    \/ Restart

Spec == Init /\ [][Next]_vars

-----------------------------------------------------------------------------
(* The cache over its lifetime: time passes, entries are purged, the cache *)
(* file is damaged.                                                        *)

\* The clock moves in steps of half a day, up to MaxTicks of them.
TickSecs == 43200
MaxTicks == 3

Tick ==
    /\ Changed
    /\ now < MaxTicks * TickSecs
    /\ now' = now + TickSecs
    /\ UNCHANGED << basedirs_fs, moviedirs_fs, files, provider, covers >>

\* The directory without a title is given its imdb.txt.
WriteImdbTxt ==
    \E d \in {m \in moviedirs_fs : PTN_parse(m.name).title = None} :
        /\ Changed
        /\ files[d] = {}
        /\ files' = [files EXCEPT ![d] = {Textfile("imdb.txt", Jackass, FALSE)}]
        /\ UNCHANGED << basedirs_fs, moviedirs_fs, provider, now, covers >>

\* The process has ended, and the cache file is cut short before the next one
\* starts.
Truncated(file) == File(SubSeq(file.text, 1, Len(file.text) - 1))

CacheFileDamaged ==
    /\ pc = "idle"
    /\ writing = ""
    /\ Complete(cachefile)
    /\ disk' = [disk EXCEPT ![cachefile_name] = Truncated(cachefile)]
    /\ Dies("exit")
    /\ UNCHANGED env_vars

\* A purge that empties the cache of directories.
cache_purge_directories_all(moviedirs) == EmptyMap

\* Playtime.cache_purge_directories, the write of the cache file included.
cache_purge_directories_none(moviedirs) == directories

cache_purge_directories(moviedirs) == Remove(directories, moviedirs)

CachePurgeDirectories ==
    \E moviedirs \in SUBSET Moviedirs :
        /\ pc = "idle"
        /\ writing = ""
        /\ moviedirs # {}
        /\ directories' = cache_purge_directories(moviedirs)
        /\ movies' = movies
        /\ disk' = write_cache_file(disk, directories', movies')
        /\ passes' = 0
        /\ last' = [Nothing EXCEPT !.op = "cache_purge_directories",
                                   !.purged = moviedirs \cap DOMAIN directories]
        /\ UNCHANGED << env_vars, pc, writing, pass_vars >>

\* Playtime.cache_purge_ids: the Movie of each id, and every directory of the id.
CachePurgeIds ==
    \E imdb_ids \in SUBSET Ids :
        /\ pc = "idle"
        /\ writing = ""
        /\ imdb_ids # {}
        /\ movies' = Remove(movies, imdb_ids)
        /\ directories' =
              cache_purge_directories({d \in DOMAIN directories : directories[d] \in imdb_ids})
        /\ disk' = write_cache_file(disk, directories', movies')
        /\ passes' = 0
        /\ last' = [Nothing EXCEPT !.op = "cache_purge_ids"]
        /\ UNCHANGED << env_vars, pc, writing, pass_vars >>

NextLifetime ==
    \/ Tick
    \/ UpdateForced
    \/ WriteImdbTxt
    \/ ProviderChanges
    \/ CacheFileDamaged
    \/ UpdateCache
    \/ ListBasedir
    \/ UpdateCacheDirectory
    \/ UpdateCacheMoviedata
    \/ CleanCache
    \/ CachePurgeDirectories
    \/ CachePurgeIds
    \/ Restart

SpecLifetime == Init /\ [][NextLifetime]_vars

-----------------------------------------------------------------------------
(* Cache.write_cache_file step by step, with the process killed at any     *)
(* point of it.                                                            *)

\* An update_cache_directory that leaves the save to the end of the pass.
UpdateCacheDirectoryUnsaved ==
    \E d \in moviedirs_left : \E textfiles \in find_textfiles(d) :
        /\ InMemory(d, update_cache_directory(d, args, textfiles))
        /\ UNCHANGED << disk, writing >>

UpdateCacheDirectoryThenWrite ==
    \E d \in moviedirs_left : \E textfiles \in find_textfiles(d) :
        LET r == update_cache_directory(d, args, textfiles)
        IN  /\ InMemory(d, r)
            /\ writing' = IF r.wrote THEN "open" ELSE ""
            /\ UNCHANGED disk

CleanCacheThenWrite ==
    /\ CleanInMemory
    /\ writing' = "open"
    /\ UNCHANGED disk

\* with cachepath.open("w") as f
WriteOpen ==
    /\ writing = "open"
    /\ disk' = opened(disk)
    /\ writing' = "write"
    /\ last' = [Nothing EXCEPT !.op = "open"]
    /\ UNCHANGED << cache_vars, env_vars, pc, pass_vars, passes >>

\* f.write(moviejson): the text reaches the file member by member; the file is
\* closed when all of it is written.
WriteText ==
    /\ writing = "write"
    /\ LET text == moviejson(directories, movies)
           n == Len(disk[cachepath].text)
       IN  /\ disk' = appended(disk, << text[n + 1] >>)
           /\ writing' = IF n + 1 = Len(text) THEN "replace" ELSE "write"
    /\ last' = [Nothing EXCEPT !.op = "write"]
    /\ UNCHANGED << cache_vars, env_vars, pc, pass_vars, passes >>

\* cachepath.replace(target)
WriteReplace ==
    /\ writing = "replace"
    /\ disk' = replaced(disk)
    /\ writing' = ""
    /\ last' = [Nothing EXCEPT !.op = "replace"]
    /\ UNCHANGED << cache_vars, env_vars, pc, pass_vars, passes >>

Killed ==
    /\ writing # ""
    /\ Dies(writing)
    /\ UNCHANGED << disk, env_vars >>

NextSave ==
    \/ RemoveMoviedir
    \/ WriteTextfiles
    \/ UpdateCache
    \/ ListBasedir
    \/ UpdateCacheDirectoryThenWrite
    \/ UpdateCacheMoviedata
    \/ CleanCacheThenWrite
    \/ WriteOpen
    \/ WriteText
    \/ WriteReplace
    \/ Killed
    \/ Restart

SpecSave == Init /\ [][NextSave]_vars

-----------------------------------------------------------------------------
(* The symlink tree (Playtime.create_symlink_dirs).                        *)

\* A name is a sequence of pieces of text, a path the sequence of its names from
\* the root. A person's name starts with its first letter as a piece of its own.
symlink_dir == << <<"symlinks">> >>
PathSeq(moviedir) == << <<moviedir.parent>>, <<moviedir.name>> >>
DotDot == <<"..">>

\* str(value) of an int, as a name.
str(value) == << ToString(value) >>

\* Movie.dirname: "title (year)", every os.sep replaced by "_".
dirname(movie) ==
    LET text == getattr(movie, "title") \o << " (", ToString(getattr(movie, "year")), ")" >>
    IN  [i \in DOMAIN text |-> IF text[i] = os_sep THEN "_" ELSE text[i]]

\* The default runtime_interval of create_symlink_dirs.
runtime_interval == 30

\* Movie.get_category: the values of a movie in a category, as a set of names.
\* A value that is not a list is turned into the one-element list of its str,
\* and None is not a list.
get_category(movie, category) ==
    IF category = "runtime"
    THEN LET lower == getattr(movie, "runtime") \div runtime_interval
         IN  { << ToString(runtime_interval * lower), "-",
                  ToString(runtime_interval * (lower + 1)), " minutes" >> }
    ELSE IF is_none(movie, category)
    THEN { IF category \in {"directors", "actors"} THEN << "N", "one" >> ELSE << "None" >> }
    ELSE LET value == getattr(movie, category)
         IN  IF category \in ListFields
             THEN value
             ELSE { str(value) }

\* getattr(self, category) of get_category raises AttributeError: some Movie of
\* the cache has no attribute of that name.
raises_AttributeError(category) ==
    /\ category # "runtime"
    /\ \E id \in DOMAIN movies : ~hasattr(movies[id], category)

\* Cache.get_category_values: the values of all the Movies of the cache.
get_category_values(category) ==
    UNION {get_category(movies[id], category) : id \in DOMAIN movies}

\* A node of the tree: a directory, a symlink with its target, or a regular
\* file. The target of a symlink is absolute or relative to the directory that
\* holds the link.
Dir(path) == [path |-> path, kind |-> "dir", absolute |-> FALSE, target |-> << >>]
Symlink(path, absolute, to) == [path |-> path, kind |-> "link", absolute |-> absolute, target |-> to]
RegularFile(path) == [path |-> path, kind |-> "file", absolute |-> FALSE, target |-> << >>]

parent(path) == SubSeq(path, 1, Len(path) - 1)
name(path) == path[Len(path)]
IsUnder(path, dir) == Len(path) >= Len(dir) /\ SubSeq(path, 1, Len(dir)) = dir

exists(tree, path) == \E n \in tree : n.path = path
is_symlink(tree, path) == \E n \in tree : n.path = path /\ n.kind = "link"
iterdir(tree, dir) == {n \in tree : Len(n.path) = Len(dir) + 1 /\ IsUnder(n.path, dir)}

\* Path.mkdir(parents=True, exist_ok=True), below the root.
mkdir(tree, path) ==
    tree \cup {Dir(SubSeq(path, 1, k)) : k \in {j \in 1..Len(path) : ~exists(tree, SubSeq(path, 1, j))}}

\* Path.rename of a directory: everything below it moves with it.
rename(tree, old, new) ==
    { IF IsUnder(n.path, old)
      THEN [n EXCEPT !.path = new \o SubSeq(n.path, Len(old) + 1, Len(n.path))]
      ELSE n : n \in tree }

\* Path.relative_to(other, walk_up=True): one ".." for each name of other below
\* the common ancestor, then the names of path below it.
relative_to(path, other) ==
    LET shorter == IF Len(path) < Len(other) THEN Len(path) ELSE Len(other)
        common == CHOOSE k \in 0..shorter :
                      /\ SubSeq(path, 1, k) = SubSeq(other, 1, k)
                      /\ k < shorter => path[k + 1] # other[k + 1]
    IN  [i \in 1..(Len(other) - common) |-> DotDot] \o SubSeq(path, common + 1, Len(path))

\* Where the filesystem finds a relative target when it is read in directory dir.
RECURSIVE resolve(_, _)
resolve(dir, rel) ==
    IF rel = << >> THEN dir
    ELSE IF Head(rel) = DotDot THEN resolve(parent(dir), Tail(rel))
    ELSE resolve(Append(dir, Head(rel)), Tail(rel))

\* The directory a symlink of the tree leads to.
Resolved(link) == IF link.absolute THEN link.target ELSE resolve(parent(link.path), link.target)

\* Playtime.clean_category_dir: the category directory exists and is empty.
clean_category_dir(tree, category_dir) ==
    mkdir({n \in tree : ~(IsUnder(n.path, category_dir) /\ n.path # category_dir)}, category_dir)

\* A get_thingdir without the level of the first letter.
get_thingdir_flat(category, categorydir, thing) == Append(categorydir, thing)

\* Playtime.get_thingdir: a level with the first letter for people.
get_thingdir(category, categorydir, thing) ==
    IF category \in {"actors", "directors"}
    THEN categorydir \o << << thing[1] >>, thing >>
    ELSE Append(categorydir, thing)

\* The name of a directory with the number of its entries.
countname(text, entries, unit) == text \o << " (", ToString(entries), " ", unit, ")" >>

\* A handling of the cover that does nothing once the cover is in .covers.
handle_cover_once(tree, subdir, movie) ==
    LET symlink_cover == symlink_dir \o << <<".covers">>, <<movie.imdb_id, ".jpg">> >>
    IN  IF movie.imdb_id \notin covers \/ exists(tree, symlink_cover) THEN tree
        ELSE tree \cup { RegularFile(symlink_cover),
                         Symlink(Append(subdir, <<"poster.jpg">>), FALSE,
                                 relative_to(symlink_cover, subdir)) }

\* The cover of a movie in create_symlinks_for_thing: the cover of the cache is
\* copied to .covers once, and the movie's directory gets a relative link to it.
handle_cover(tree, subdir, movie) ==
    LET symlink_cover == symlink_dir \o << <<".covers">>, <<movie.imdb_id, ".jpg">> >>
        movie_cover == Append(subdir, <<"poster.jpg">>)
        copied == IF exists(tree, symlink_cover) THEN tree
                  ELSE tree \cup {RegularFile(symlink_cover)}
    IN  IF movie.imdb_id \notin covers THEN tree
        ELSE IF exists(copied, movie_cover) THEN copied
        ELSE copied \cup {Symlink(movie_cover, FALSE, relative_to(symlink_cover, subdir))}

\* A tree, and whether the run that made it ended in an exception.
Made(tree) == [tree |-> tree, raised |-> FALSE, why |-> None]
Raised(tree) == [tree |-> tree, raised |-> TRUE, why |-> "KeyError"]
RaisedAttributeError(tree) == [tree |-> tree, raised |-> TRUE, why |-> "AttributeError"]

\* The loop of create_symlinks_for_thing over the directories of the cache, in
\* the order of the dict: a link that is there already is kept.
\* A loop that never finds the link there already.
link_always(tree, linkpath) == FALSE

already_linked(tree, linkpath) == is_symlink(tree, linkpath)

RECURSIVE link_moviedirs(_, _, _, _, _, _)
link_moviedirs(tree, order, thing, thingdir, category, relative) ==
    IF order = << >> THEN Made(tree)
    ELSE LET moviedir == Head(order)
             imdb_id == directories[moviedir]
         IN  IF imdb_id \notin DOMAIN movies THEN Raised(tree)
             ELSE LET movie == movies[imdb_id]
                      subdir == Append(thingdir, dirname(movie))
                      withcover == handle_cover(mkdir(tree, subdir), subdir, movie)
                      linkpath == Append(subdir, <<moviedir.name>>)
                      linked ==
                          IF already_linked(withcover, linkpath) THEN withcover
                          ELSE withcover \cup
                               { IF relative
                                 THEN Symlink(linkpath, FALSE, relative_to(PathSeq(moviedir), parent(linkpath)))
                                 ELSE Symlink(linkpath, TRUE, PathSeq(moviedir)) }
                  IN  IF thing \in get_category(movie, category)
                      THEN link_moviedirs(linked, Tail(order), thing, thingdir, category, relative)
                      ELSE link_moviedirs(tree, Tail(order), thing, thingdir, category, relative)

\* Playtime.create_symlinks_for_thing: the links of the thing, then the rename
\* of its directory to the name with the number of its entries.
create_symlinks_for_thing(tree, order, thing, thingdir, category, relative) ==
    LET made == link_moviedirs(mkdir(tree, thingdir), order, thing, thingdir, category, relative)
        entries == Cardinality(iterdir(made.tree, thingdir))
        countdir == Append(parent(thingdir), countname(name(thingdir), entries, "movies"))
    IN  IF made.raised THEN made ELSE Made(rename(made.tree, thingdir, countdir))

\* The loop over the things of a category. Each thing has a directory of its
\* own, so the tree of a complete run does not depend on the order of the things.
RECURSIVE things_loop(_, _, _, _, _)
things_loop(made, things, order, category, relative) ==
    IF things = {} \/ made.raised THEN made
    ELSE LET thing == CHOOSE t \in things : TRUE
             categorydir == Append(symlink_dir, <<category>>)
             thingdir == get_thingdir(category, categorydir, thing)
         IN  things_loop(create_symlinks_for_thing(made.tree, order, thing, thingdir, category, relative),
                         things \ {thing}, order, category, relative)

\* The rename of the letter directories of a category of people.
RECURSIVE rename_letterdirs(_, _, _)
rename_letterdirs(tree, letterdirs, category) ==
    IF letterdirs = {} THEN tree
    ELSE LET letterdir == CHOOSE l \in letterdirs : TRUE
             entries == Cardinality(iterdir(tree, letterdir))
             countdir == Append(parent(letterdir), countname(name(letterdir), entries, category))
         IN  rename_letterdirs(rename(tree, letterdir, countdir), letterdirs \ {letterdir}, category)

\* One round of the loop of create_symlink_dirs over the categories.
create_category(tree, order, category, relative) ==
    LET categorydir == Append(symlink_dir, <<category>>)
        made == things_loop(Made(clean_category_dir(tree, categorydir)),
                            get_category_values(category), order, category, relative)
    IN  IF raises_AttributeError(category)
        THEN RaisedAttributeError(clean_category_dir(tree, categorydir))
        ELSE IF made.raised \/ category \notin {"actors", "directors"} THEN made
        ELSE Made(rename_letterdirs(made.tree, {n.path : n \in iterdir(made.tree, categorydir)}, category))

RECURSIVE categories_loop(_, _, _, _)
categories_loop(made, order, categories, relative) ==
    IF categories = << >> \/ made.raised THEN made
    ELSE categories_loop(create_category(made.tree, order, Head(categories), relative),
                         order, Tail(categories), relative)

\* Playtime.create_symlink_dirs on the tree that is there, order being the order
\* of the dict of the directories.
create_symlink_dirs(tree, order, categories, relative) ==
    categories_loop(Made(mkdir(tree, Append(symlink_dir, <<".covers">>))), order, categories, relative)

\* The lists of categories asked for.
Categories == { <<"genres">>, <<"actors", "year", "runtime">> }

\* The runs of create_symlink_dirs that are followed.
MaxRuns == 1

\* playtime symlink: create_symlink_dirs runs to its end, or ends in a KeyError.
CreateSymlinkDirs ==
    \E order \in Orderings(DOMAIN directories), categories \in Categories, relative \in BOOLEAN :
        LET made == create_symlink_dirs(symlinks, order, categories, relative)
        IN  /\ pc = "idle"
            /\ writing = ""
            /\ runs < MaxRuns
            /\ runs' = runs + 1
            /\ symlinks' = made.tree
            /\ IF made.raised
               THEN Dies(made.why)
               ELSE /\ last' = [Nothing EXCEPT !.op = "create_symlink_dirs", !.order = order,
                                               !.categories = categories, !.relative = relative]
                    /\ UNCHANGED << cache_vars, pc, writing, pass_vars, passes >>
            /\ UNCHANGED << disk, basedirs_fs, moviedirs_fs, files, provider, now, covers, building, posters >>

\* A cover file appears in the cover store of the cache.
CoverStored ==
    \E id \in Ids \ covers :
        /\ Changed
        /\ covers' = covers \cup {id}
        /\ UNCHANGED << basedirs_fs, moviedirs_fs, files, provider, now >>

\* A directory of movies2 is given an imdb.txt that names Jackass Forever.
WriteJackassTxt ==
    \E d \in {m \in moviedirs_fs : m.parent = "movies2"} :
        /\ Changed
        /\ files[d] = {}
        /\ files' = [files EXCEPT ![d] = {Textfile("imdb.txt", Jackass, FALSE)}]
        /\ UNCHANGED << basedirs_fs, moviedirs_fs, provider, now, covers >>

NextSymlink ==
    \/ WriteJackassTxt
    \/ CoverStored
    \/ UpdateCache
    \/ ListBasedir
    \/ UpdateCacheDirectory
    \/ UpdateCacheMoviedata
    \/ CleanCache
    \/ CreateSymlinkDirs

SpecSymlink == Init /\ [][NextSymlink]_vars

-----------------------------------------------------------------------------
(* create_symlink_dirs step by step, and killed on the way.                *)

\* main calls create_symlink_dirs without relative, which is then True.
relative_default == TRUE

\* The caches a rebuild starts from, with the order of the dict: two copies of
\* one movie under one basename; two movies; two titles of one name and year.
RebuildCaches ==
    { [ directories |-> [d \in {Path("movies1", "commando"), Path("movies2", "commando")} |-> Commando],
        order |-> << Path("movies1", "commando"), Path("movies2", "commando") >> ],
      [ directories |-> [d \in Moviedirs |-> IF d.parent = "movies1" THEN Commando ELSE Jackass],
        order |-> << Path("movies2", "1080p"), Path("movies1", "commando"), Path("movies2", "commando") >> ],
      [ directories |-> [d \in {Path("movies1", "commando"), Path("movies2", "1080p")} |->
                           IF d.parent = "movies1" THEN Commando ELSE Namesake],
        order |-> << Path("movies1", "commando"), Path("movies2", "1080p") >> ] }

\* The lists of categories asked for on the command line.
RebuildCategories == { <<"genres">>, <<"top_ranking", "actors">>, <<"studio">> }

\* The runs of create_symlink_dirs that are followed, the killed ones included.
MaxRebuilds == 2

InitRebuild ==
    \E cache \in RebuildCaches :
        /\ directories = cache.directories
        /\ movies = [id \in Values(cache.directories) |-> Movie(id, 0)]
        /\ disk = write_cache_file([f \in CacheFiles |-> Absent], directories, movies)
        /\ basedirs_fs = Basedirs
        /\ moviedirs_fs = Moviedirs
        /\ files = [d \in Moviedirs |-> {}]
        /\ provider = [search |-> "ok", fetchable |-> Ids]
        /\ now = 0
        /\ symlinks = {}
        /\ covers = {Commando}
        /\ runs = 0
        /\ pc = "idle"
        /\ writing = ""
        /\ args = NoArgs
        /\ basedirs_left = {}
        /\ moviedirs_left = {}
        /\ passes = 0
        /\ given = {}
        /\ last = Nothing
        /\ building = [NotBuilding EXCEPT !.order = cache.order]
        /\ posters = [d \in Moviedirs |-> "absent"]

\* What a step of the run leaves alone.
build_frame ==
    << cache_vars, disk, writing, pass_vars, passes, basedirs_fs, moviedirs_fs,
       files, provider, now, covers, runs, posters >>

\* The category the run is at, its directory and the directory of its thing.
category_now == Head(building.categories)
categorydir_now == Append(symlink_dir, <<category_now>>)
thingdir_now == get_thingdir(category_now, categorydir_now, building.thing)

\* self.cache.directories.items(): the directories of the cache in the order of
\* the dict.
items == SelectSeq(building.order, LAMBDA d : d \in DOMAIN directories)

\* A walk that removes nothing.
removable_none(tree, category_dir) == {}

\* What the walk of clean_category_dir may remove next: an entry below the
\* category directory with nothing below it.
removable(tree, category_dir) ==
    { n \in tree :
        /\ IsUnder(n.path, category_dir)
        /\ n.path # category_dir
        /\ ~\E m \in tree : m.path # n.path /\ IsUnder(m.path, n.path) }

\* What the run that starts now starts on.
started_on(categories) ==
    [ again |->
        /\ building.built.ran
        /\ building.built.directories = directories
        /\ building.built.movies = movies
        /\ building.built.covers = covers
        /\ building.built.categories = categories
        /\ building.built.tree = symlinks,
      partial |->
        /\ ~building.built.ran
        /\ \E i \in DOMAIN categories : \E n \in symlinks :
              /\ IsUnder(n.path, Append(symlink_dir, <<categories[i]>>))
              /\ Len(n.path) > Len(symlink_dir) + 1,
      other_cache |->
        /\ symlinks # {}
        /\ building.built.directories # directories ]

\* The run ends before its end: the cache it was given is remembered.
aborted ==
    [NotBuilding EXCEPT !.order = building.order,
                        !.built = [NoBuilt EXCEPT !.directories = directories]]

\* playtime symlink starts: the symlink directory and .covers are made.
BuildStart ==
    \E categories \in RebuildCategories :
        /\ pc = "idle"
        /\ writing = ""
        /\ building.phase = "none"
        /\ runs < MaxRebuilds
        /\ runs' = runs + 1
        /\ pc' = "create_symlink_dirs"
        /\ symlinks' = mkdir(symlinks, Append(symlink_dir, <<".covers">>))
        /\ building' = [building EXCEPT !.phase = "clean", !.asked = categories,
                                        !.categories = categories,
                                        !.start = started_on(categories)]
        /\ last' = [Nothing EXCEPT !.op = "symlink"]
        /\ UNCHANGED << cache_vars, disk, writing, pass_vars, passes, basedirs_fs,
                        moviedirs_fs, files, provider, now, covers, posters >>

\* clean_category_dir: the category directory is made.
BuildMkdir ==
    /\ pc = "create_symlink_dirs"
    /\ building.phase = "clean"
    /\ symlinks' = mkdir(symlinks, categorydir_now)
    /\ building' = [building EXCEPT !.phase = "walk"]
    /\ last' = [Nothing EXCEPT !.op = "clean_category_dir"]
    /\ UNCHANGED << build_frame, pc >>

\* clean_category_dir: the walk from the bottom removes one entry.
BuildUnlink ==
    /\ pc = "create_symlink_dirs"
    /\ building.phase = "walk"
    /\ \E n \in removable(symlinks, categorydir_now) : symlinks' = symlinks \ {n}
    /\ last' = [Nothing EXCEPT !.op = "clean_category_dir"]
    /\ UNCHANGED << build_frame, pc, building >>

\* The walk is over; get_category_values gives the things of the category, or
\* raises.
BuildValues ==
    /\ pc = "create_symlink_dirs"
    /\ building.phase = "walk"
    /\ removable(symlinks, categorydir_now) = {}
    /\ IF raises_AttributeError(category_now)
       THEN /\ Dies("AttributeError")
            /\ building' = aborted
            /\ UNCHANGED << disk, env_vars_but_building >>
       ELSE /\ building' = [building EXCEPT !.phase = "things",
                                            !.things = get_category_values(category_now)]
            /\ last' = [Nothing EXCEPT !.op = "get_category_values"]
            /\ UNCHANGED << build_frame, pc, symlinks >>

\* The loop over the things reaches a thing: create_symlinks_for_thing makes its
\* directory.
BuildThing ==
    \E thing \in building.things :
        /\ pc = "create_symlink_dirs"
        /\ building.phase = "things"
        /\ symlinks' = mkdir(symlinks, get_thingdir(category_now, categorydir_now, thing))
        /\ building' = [building EXCEPT !.phase = "links", !.thing = thing, !.moviedirs = items]
        /\ last' = [Nothing EXCEPT !.op = "create_symlinks_for_thing"]
        /\ UNCHANGED << build_frame, pc >>

\* One round of the loop of create_symlinks_for_thing over the directories.
BuildLink ==
    /\ pc = "create_symlink_dirs"
    /\ building.phase = "links"
    /\ building.moviedirs # << >>
    /\ LET made == link_moviedirs(symlinks, << Head(building.moviedirs) >>, building.thing,
                                  thingdir_now, category_now, relative_default)
       IN  /\ symlinks' = made.tree
           /\ IF made.raised
              THEN /\ Dies(made.why)
                   /\ building' = aborted
                   /\ UNCHANGED << disk, basedirs_fs, moviedirs_fs, files, provider, now, covers, runs, posters >>
              ELSE /\ building' = [building EXCEPT !.moviedirs = Tail(building.moviedirs)]
                   /\ last' = [Nothing EXCEPT !.op = "link", !.moviedir = Head(building.moviedirs)]
                   /\ UNCHANGED << build_frame, pc >>

\* The loop over the directories is over: the directory of the thing is renamed
\* to the name with the number of its entries.
BuildCount ==
    /\ pc = "create_symlink_dirs"
    /\ building.phase = "links"
    /\ building.moviedirs = << >>
    /\ symlinks' = create_symlinks_for_thing(symlinks, << >>, building.thing, thingdir_now,
                                             category_now, relative_default).tree
    /\ building' = [building EXCEPT !.phase = "things", !.thing = << >>,
                                    !.things = building.things \ {building.thing}]
    /\ last' = [Nothing EXCEPT !.op = "rename"]
    /\ UNCHANGED << build_frame, pc >>

\* The loop over the things is over: a category of people lists its letter
\* directories.
BuildLetterdirs ==
    /\ pc = "create_symlink_dirs"
    /\ building.phase = "things"
    /\ building.things = {}
    /\ building' = [building EXCEPT !.phase = "letters", !.letterdirs =
                        IF category_now \in {"actors", "directors"}
                        THEN {n.path : n \in iterdir(symlinks, categorydir_now)}
                        ELSE {}]
    /\ last' = [Nothing EXCEPT !.op = "iterdir"]
    /\ UNCHANGED << build_frame, pc, symlinks >>

\* One letter directory is renamed to the name with the number of its entries.
BuildLetter ==
    \E letterdir \in building.letterdirs :
        /\ pc = "create_symlink_dirs"
        /\ building.phase = "letters"
        /\ symlinks' = rename_letterdirs(symlinks, {letterdir}, category_now)
        /\ building' = [building EXCEPT !.letterdirs = building.letterdirs \ {letterdir}]
        /\ last' = [Nothing EXCEPT !.op = "rename"]
        /\ UNCHANGED << build_frame, pc >>

\* The loop over the categories goes on to the next one.
BuildNextCategory ==
    /\ pc = "create_symlink_dirs"
    /\ building.phase = "letters"
    /\ building.letterdirs = {}
    /\ Len(building.categories) > 1
    /\ building' = [building EXCEPT !.phase = "clean", !.categories = Tail(building.categories)]
    /\ last' = [Nothing EXCEPT !.op = "category"]
    /\ UNCHANGED << build_frame, pc, symlinks >>

\* The last category is done: create_symlink_dirs returns.
BuildEnd ==
    /\ pc = "create_symlink_dirs"
    /\ building.phase = "letters"
    /\ building.letterdirs = {}
    /\ Len(building.categories) = 1
    /\ pc' = "idle"
    /\ building' = [NotBuilding EXCEPT
                        !.order = building.order,
                        !.built = [ ran |-> TRUE, directories |-> directories, movies |-> movies,
                                    covers |-> covers, categories |-> building.asked,
                                    tree |-> symlinks, start |-> building.start ]]
    /\ last' = [Nothing EXCEPT !.op = "create_symlink_dirs", !.order = items,
                               !.categories = building.asked, !.relative = relative_default]
    /\ UNCHANGED << build_frame, symlinks >>

\* The process is killed between two steps of the run (of a run that another
\* run may follow).
BuildKilled ==
    /\ pc = "create_symlink_dirs"
    /\ runs < MaxRebuilds
    /\ Dies("killed")
    /\ building' = aborted
    /\ UNCHANGED << disk, env_vars_but_building >>

\* What a round of the loop over the directories has done when the process is
\* killed inside it: the movie's directory is made, then the cover is handled,
\* then the link is made.
link_begun(tree, moviedir, thing, thingdir, category) ==
    LET movie == movies[directories[moviedir]]
        subdir == Append(thingdir, dirname(movie))
    IN  IF directories[moviedir] \notin DOMAIN movies
           \/ thing \notin get_category(movie, category)
        THEN { tree }
        ELSE { mkdir(tree, subdir), handle_cover(mkdir(tree, subdir), subdir, movie) }

\* The process is killed inside a round of the loop over the directories.
BuildKilledInLink ==
    /\ pc = "create_symlink_dirs"
    /\ runs < MaxRebuilds
    /\ building.phase = "links"
    /\ building.moviedirs # << >>
    /\ \E tree \in link_begun(symlinks, Head(building.moviedirs), building.thing,
                               thingdir_now, category_now) :
           /\ tree # symlinks
           /\ symlinks' = tree
           /\ building' = aborted
    /\ Dies("killed")
    /\ UNCHANGED << disk, basedirs_fs, moviedirs_fs, files, provider, now, covers, runs, posters >>

NextRebuild ==
    \/ BuildStart
    \/ BuildMkdir
    \/ BuildUnlink
    \/ BuildValues
    \/ BuildThing
    \/ BuildLink
    \/ BuildCount
    \/ BuildLetterdirs
    \/ BuildLetter
    \/ BuildNextCategory
    \/ BuildEnd
    \/ BuildKilled
    \/ BuildKilledInLink
    \/ Restart
    \/ CachePurgeIds

SpecRebuild == InitRebuild /\ [][NextRebuild]_vars

-----------------------------------------------------------------------------
(* The covers in the movie directories.                                    *)

\* What poster.jpg may be in a movie directory: nothing, a regular file, a
\* symlink to a file that exists, a symlink to a file that does not.
PosterKinds == {"absent", "file", "symlink", "dangling"}

\* movie_cover.exists() follows a symlink; movie_cover.is_symlink() does not.
poster_exists(kind) == kind \in {"file", "symlink"}
poster_is_symlink(kind) == kind \in {"symlink", "dangling"}

\* The posters, and whether the loop that made them ended in an exception.
Distributed(had) == [posters |-> had, raised |-> FALSE, why |-> None]
DistributeRaised(had, why) == [posters |-> had, raised |-> TRUE, why |-> why]

\* The poster of the wrong type for the mode is unlinked.
unlinks(kind, save_covers_in_moviedirs) ==
    poster_exists(kind) /\ (poster_is_symlink(kind) <=> save_covers_in_moviedirs)

\* One round of the loop of distribute_covers, for a directory whose movie has a
\* cover in the cache: a poster of the right type is kept, one of the wrong type
\* is unlinked, and then the cover is copied or symlinked. shutil.copy writes
\* through a symlink that is there (through: the directory the link points into
\* exists); symlink_to raises when the path is taken.
distribute_cover(had, moviedir, save_covers_in_moviedirs, through) ==
    LET kind == had[moviedir]
        kept == poster_exists(kind) /\ ~unlinks(kind, save_covers_in_moviedirs)
        left == IF unlinks(kind, save_covers_in_moviedirs) THEN "absent" ELSE kind
    IN  IF kept THEN Distributed(had)
        ELSE IF moviedir \notin moviedirs_fs
        THEN DistributeRaised(had, "FileNotFoundError")
        ELSE IF save_covers_in_moviedirs
        THEN IF left = "absent" THEN Distributed([had EXCEPT ![moviedir] = "file"])
             ELSE IF left = "file" THEN Distributed(had)
             ELSE IF through THEN Distributed([had EXCEPT ![moviedir] = "symlink"])
             ELSE DistributeRaised(had, "FileNotFoundError")
        ELSE IF left = "absent" THEN Distributed([had EXCEPT ![moviedir] = "symlink"])
             ELSE DistributeRaised([had EXCEPT ![moviedir] = left], "FileExistsError")

\* Playtime.distribute_covers: the loop over the directories of the cache, stored
\* being the ids with a cover in the cache.
RECURSIVE distribute_covers(_, _, _, _, _)
distribute_covers(made, order, stored, save_covers_in_moviedirs, through) ==
    IF order = << >> \/ made.raised THEN made
    ELSE LET moviedir == Head(order)
             imdb_id == directories[moviedir]
         IN  IF imdb_id \notin DOMAIN movies
             THEN DistributeRaised(made.posters, "KeyError")
             ELSE distribute_covers(
                      IF imdb_id \notin stored THEN made
                      ELSE distribute_cover(made.posters, moviedir, save_covers_in_moviedirs, through),
                      Tail(order), stored, save_covers_in_moviedirs, through)

\* The covers that download_covers fetches.
missing_covers(force_download) ==
    { id \in DOMAIN movies :
        /\ id \notin covers \/ force_download
        /\ Catalogue[id].primary_image # "" }

\* playtime download: download_covers fetches the covers that are missing (got:
\* those fetched before a download fails), then distribute_covers runs.
DownloadCovers ==
    \E save_covers_in_moviedirs \in BOOLEAN, force_download \in BOOLEAN, through \in BOOLEAN :
        \E got \in SUBSET missing_covers(force_download) :
            LET made == distribute_covers(Distributed(posters), items, covers \cup got,
                                          save_covers_in_moviedirs, through)
            IN  /\ pc = "idle"
                /\ writing = ""
                /\ covers' = covers \cup got
                /\ IF got # missing_covers(force_download)
                   THEN /\ posters' = posters
                        /\ Dies("URLError")
                   ELSE /\ posters' = made.posters
                        /\ IF made.raised
                           THEN Dies(made.why)
                           ELSE /\ last' = [Nothing EXCEPT
                                               !.op = "download_covers",
                                               !.save_covers_in_moviedirs = save_covers_in_moviedirs]
                                /\ UNCHANGED << cache_vars, pc, writing, pass_vars, passes >>
                /\ UNCHANGED << disk, basedirs_fs, moviedirs_fs, files, provider, now,
                                symlinks, runs, building >>

InitCovers ==
    \E cache \in RebuildCaches, stored \in {{}, {Commando}}, there \in [Moviedirs -> PosterKinds] :
        /\ directories = cache.directories
        /\ movies = [id \in Values(cache.directories) |-> Movie(id, 0)]
        /\ disk = write_cache_file([f \in CacheFiles |-> Absent], directories, movies)
        /\ basedirs_fs = Basedirs
        /\ moviedirs_fs = Moviedirs
        /\ files = [d \in Moviedirs |-> {}]
        /\ provider = [search |-> "ok", fetchable |-> Ids]
        /\ now = 0
        /\ symlinks = {}
        /\ covers = stored
        /\ runs = 0
        /\ pc = "idle"
        /\ writing = ""
        /\ args = NoArgs
        /\ basedirs_left = {}
        /\ moviedirs_left = {}
        /\ passes = 0
        /\ given = {}
        /\ last = Nothing
        /\ building = [NotBuilding EXCEPT !.order = cache.order]
        /\ posters = there

NextCovers ==
    \/ DownloadCovers
    \/ Restart

SpecCovers == InitCovers /\ [][NextCovers]_vars

-----------------------------------------------------------------------------
(* The cleaning pass.                                                      *)

\* C1: when clean_cache has returned, no directory of the cache is missing from
\* the filesystem and every Movie of the cache is the movie of a directory of the
\* cache: the Movie of a vanished directory that alone referenced it is removed by
\* the same pass.
C1_CleanLeavesNoOrphan ==
    last.op = "clean_cache" =>
        /\ \A d \in DOMAIN directories : d \in moviedirs_fs
        /\ \A id \in DOMAIN movies : id \in Values(directories)

\* C2: clean_cache leaves every directory that exists on the filesystem mapped as
\* it was, and every Movie that a directory still maps to after the pass present
\* and as it was.
C2_CleanKeepsLiveData ==
    [][ last'.op = "clean_cache" =>
          /\ \A d \in DOMAIN directories :
                d \in moviedirs_fs =>
                    d \in DOMAIN directories' /\ directories'[d] = directories[d]
          /\ \A id \in DOMAIN movies :
                id \in Values(directories') =>
                    id \in DOMAIN movies' /\ movies'[id] = movies[id]
          /\ DOMAIN directories' \subseteq DOMAIN directories
          /\ DOMAIN movies' \subseteq DOMAIN movies ]_vars

\* A clean pass has removed one copy of a movie and the other copy and the Movie
\* are still in the cache.
C2_Witness ==
    /\ last.op = "clean_cache"
    /\ last.removed_directories # {}
    /\ \E d \in DOMAIN directories :
          /\ d \in moviedirs_fs
          /\ directories[d] \in DOMAIN movies

-----------------------------------------------------------------------------
(* The identification pass.                                                *)

\* The ids the hint files of a movie directory hold: the files find_textfiles
\* returns, and all its *.txt and *.nfo files.
HintIds(moviedir) == {f.id : f \in {g \in files[moviedir] : ~g.big}} \ {None}
AnyHintIds(moviedir) == {f.id : f \in files[moviedir]} \ {None}

\* update_cache_directory has just run on a directory that was (not) in the cache.
Processed == last.op = "update_cache_directory"
ProcessedUnmapped == Processed /\ last.cached = None
ProcessedMapped == Processed /\ last.cached # None

\* C3: in an identification pass that follows a completed pass, with nothing
\* changed on the filesystem or at the provider in between, no directory's step
\* changes the directories or the movies of the cache, issues a title search or
\* looks an id up at the provider.
C3_SecondPassIdle ==
    [][ (last'.op = "update_cache_directory" /\ passes >= 1) =>
            /\ directories' = directories
            /\ movies' = movies
            /\ ~last'.searched
            /\ last'.fetched = {} ]_vars

\* C4: update_cache_directory on a directory of the cache whose hint files hold
\* no id, or only the cached id, returns True and does nothing else: no search, no
\* lookup, no change of the cache, no write of the cache file.
C4_KnownDirectoryNoWork ==
    [][ ( /\ last'.op = "update_cache_directory"
          /\ last'.cached # None
          /\ AnyHintIds(last'.moviedir) \subseteq {last'.cached} ) =>
            /\ last'.result
            /\ ~last'.identified
            /\ ~last'.searched
            /\ last'.fetched = {}
            /\ ~last'.wrote
            /\ directories' = directories
            /\ movies' = movies
            /\ disk' = disk ]_vars

\* A directory of the cache whose imdb.txt names the cached id has been processed.
C4_Witness ==
    /\ ProcessedMapped
    /\ AnyHintIds(last.moviedir) = {last.cached}
    /\ last.check_id = last.cached
    /\ last.result

\* C5: after update_cache_directory on a directory of the cache (mapped to A) one
\* of whose hint files (*.txt or *.nfo, at most 1 MiB) names another id B, the
\* directory is mapped to an id its hint files name and the cache holds the Movie
\* of that id. Stated for a directory none of whose hint files names A, and a
\* provider whose every lookup succeeds.
C5_HintOverridesCache ==
    ( /\ ProcessedMapped
      /\ provider.fetchable = Ids
      /\ HintIds(last.moviedir) # {}
      /\ last.cached \notin HintIds(last.moviedir) ) =>
        /\ last.moviedir \in DOMAIN directories
        /\ directories[last.moviedir] \in HintIds(last.moviedir)
        /\ directories[last.moviedir] \in DOMAIN movies

\* C6, as stated: for a directory that is not in the cache and holds a hint file
\* with an id, no title search is issued and the directory is mapped to an id of
\* its hint files.
C6_HintNeverSearches ==
    (ProcessedUnmapped /\ AnyHintIds(last.moviedir) # {}) =>
        /\ ~last.searched
        /\ last.moviedir \in DOMAIN directories
        /\ directories[last.moviedir] \in AnyHintIds(last.moviedir)

\* C6, amended: for a directory that is not in the cache and holds a hint file of
\* at most 1 MiB with an id, processed with the textfile step enabled, no title
\* search is issued whatever the directory name parses to, the one id looked up is
\* an id of those hint files, and when that lookup succeeds the directory is mapped
\* to that id and the cache holds its Movie.
C6_HintNeverSearchesWhenRead ==
    (ProcessedUnmapped /\ ~args.skip_textfiles /\ HintIds(last.moviedir) # {}) =>
        /\ ~last.searched
        /\ last.hint_id \in HintIds(last.moviedir)
        /\ last.fetched = {last.hint_id}
        /\ last.hint_id \in provider.fetchable =>
              /\ last.result
              /\ last.moviedir \in DOMAIN directories
              /\ directories[last.moviedir] = last.hint_id
              /\ last.hint_id \in DOMAIN movies

\* A directory whose name parses to a title that the search finds has been mapped
\* to the other id, the one of its movie.nfo.
C6_Witness ==
    /\ ProcessedUnmapped
    /\ ~args.skip_textfiles
    /\ PTN_parse(last.moviedir.name).title \in DOMAIN SearchResults
    /\ provider.search = "ok"
    /\ \E f \in files[last.moviedir] : Suffix(f.name) = "nfo" /\ f.id = last.hint_id
    /\ last.moviedir \in DOMAIN directories
    /\ directories[last.moviedir] = last.hint_id
    /\ directories[last.moviedir] # SearchResults[PTN_parse(last.moviedir.name).title]

\* C7: update_cache_directory returns False for a directory that is not in the
\* cache only when every enabled step has been tried: with the search step
\* enabled and a directory name that parses to a title, the title search has been
\* issued.
C7_FailsOnlyWhenExhausted ==
    ( /\ ProcessedUnmapped
      /\ ~last.result
      /\ ~args.skip_imdb_search
      /\ PTN_parse(last.moviedir.name).title # None ) =>
        last.searched

\* C8: when the textfile step or the search step of update_cache_directory comes
\* up with an id whose Movie the cache holds, the directory is mapped to that id,
\* the Movie stays as it is and the cache file is written, whatever the lookup of
\* the id returns.
C8_CachedRecordReused ==
    [][ ( /\ last'.op = "update_cache_directory"
          /\ last'.identified
          /\ last'.fetched # {}
          /\ last'.fetched \subseteq DOMAIN movies ) =>
            /\ last'.result
            /\ last'.wrote
            /\ last'.moviedir \in DOMAIN directories'
            /\ directories'[last'.moviedir] \in last'.fetched
            /\ movies' = movies ]_vars

\* C9: when update_cache_directory returns False, the directories and the movies
\* of the cache and the cache file are as they were, and the pass goes on: the
\* process is still in update_cache_directories, with every other moviedir of the
\* listing and every other basedir still to come.
C9_FailureLeavesCache ==
    [][ (last'.op = "update_cache_directory" /\ ~last'.result) =>
            /\ directories' = directories
            /\ movies' = movies
            /\ disk' = disk
            /\ ~last'.wrote
            /\ pc' = "update_cache_directories"
            /\ moviedirs_left' = moviedirs_left \ {last'.moviedir}
            /\ basedirs_left' = basedirs_left ]_vars

\* The re-identification of a directory of the cache has failed, with another
\* moviedir of the basedir still to come.
C9_Witness ==
    /\ ProcessedMapped
    /\ last.identified
    /\ ~last.result
    /\ last.moviedir \in DOMAIN directories
    /\ directories[last.moviedir] = last.cached
    /\ moviedirs_left # {}

-----------------------------------------------------------------------------
(* The save.                                                               *)

\* C10: at every point of write_cache_file, the process killed at any of them
\* included, the cache file is absent or holds a whole document, and whenever its
\* content changes the new content is the whole document of the cache being saved.
C10_CacheFileNeverPartial ==
    /\ [](~cachefile.exists \/ Complete(cachefile))
    /\ [][cachefile' # cachefile => cachefile' = File(moviejson(directories, movies))]_vars

\* The process was killed between the write of the new file and the rename: the
\* new file is whole and the cache file still holds the previous document.
C10_Witness ==
    /\ pc = "crashed"
    /\ last.op = "replace"
    /\ Complete(disk[cachepath])
    /\ Complete(cachefile)
    /\ cachefile # disk[cachepath]

-----------------------------------------------------------------------------
(* Persistence.                                                            *)

\* The directories and the movies of the cache whose entry a load of the cache
\* file would not bring back.
Unsaved ==
    {d \in DOMAIN directories :
        \/ d \notin DOMAIN read_cache_file.directories
        \/ read_cache_file.directories[d] # directories[d]}

UnsavedMovies ==
    {id \in DOMAIN movies :
        \/ id \notin DOMAIN read_cache_file.movies
        \/ read_cache_file.movies[id] # movies[id]}

\* C11: during an identification pass the cache file holds the cache as it is in
\* memory whenever no directory is in flight, and all of it but the one directory
\* in flight (and its Movie) while that directory's save is under way; a kill
\* leaves the cache file as it is, and the load that follows brings back what it
\* holds.
C11_SavedAfterEachDirectory ==
    /\ [](pc = "update_cache_directories" =>
            /\ ~read_cache_file.raised
            /\ writing = "" =>
                  /\ read_cache_file.directories = directories
                  /\ read_cache_file.movies = movies
            /\ Cardinality(Unsaved) <= 1
            /\ Cardinality(UnsavedMovies) <= 1)
    /\ [][pc' = "crashed" => cachefile' = cachefile]_vars
    /\ [][last'.op = "read_cache_file" =>
            /\ directories' = read_cache_file.directories
            /\ movies' = read_cache_file.movies]_vars

\* The process was killed during the save of a directory, and the cache file
\* holds the directories and the movies saved before it.
C11_Witness ==
    /\ pc = "crashed"
    /\ last.op \in {"open", "write"}
    /\ ~read_cache_file.raised
    /\ Cardinality(DOMAIN read_cache_file.directories) >= 2
    /\ DOMAIN read_cache_file.movies # {}

\* A public operation that changes the cache has just returned.
Returned ==
    /\ pc = "idle"
    /\ last.op \in { "update_cache_moviedata", "clean_cache", "cache_purge_ids",
                     "cache_purge_directories" }

\* C12: when update_cache (whatever its flags), clean_cache, cache_purge_ids or
\* cache_purge_directories returns, a load of the cache file gives the directories
\* and the movies of the cache as they are in memory, refreshed movies included.
C12_SavedOnReturn ==
    Returned =>
        /\ ~read_cache_file.raised
        /\ read_cache_file.directories = directories
        /\ read_cache_file.movies = movies

\* C13: Cache.read_cache_file on a cache file that exists and does not parse
\* returns, with a cache that holds no directories and no movies, and the process
\* goes on.
C13_DamagedFileLoadsEmpty ==
    ( /\ last.op \in {"read_cache_file", "KeyError"}
      /\ cachefile.exists
      /\ ~Complete(cachefile) ) =>
        /\ pc = "idle"
        /\ directories = EmptyMap
        /\ movies = EmptyMap

-----------------------------------------------------------------------------
(* The refresh.                                                            *)

\* The movies of the cache fetched days whole days ago or earlier.
Stale(days) == {id \in DOMAIN movies : now - movies[id].data_epoch >= days * SecondsPerDay}

\* C14: update_cache_moviedata with the limit T looks up exactly the movies of the
\* cache fetched T whole days ago or earlier; each of them whose lookup succeeds
\* is replaced by the Movie the lookup returns, and every other Movie stays as
\* it is.
C14_RefreshExactlyStale ==
    [][ last'.op = "update_cache_moviedata" =>
            /\ last'.fetched = Stale(args.update_age_days)
            /\ DOMAIN movies' = DOMAIN movies
            /\ \A id \in DOMAIN movies :
                  movies'[id] =
                      IF id \in Stale(args.update_age_days) /\ id \in provider.fetchable
                      THEN Movie(id, now) ELSE movies[id] ]_vars

\* A refresh has replaced a Movie fetched a day ago and left alone a Movie fetched
\* half a day ago.
C14_Witness ==
    /\ last.op = "update_cache_moviedata"
    /\ \E id \in last.fetched : movies[id].data_epoch = now
    /\ \E id \in DOMAIN movies \ last.fetched :
          /\ movies[id].data_epoch < now
          /\ movies[id].data_epoch > 0

\* C15: update_cache_moviedata leaves the directories of the cache and the ids of
\* its movies as they are, every Movie under its own id, and the Movie whose lookup
\* fails unchanged.
C15_RefreshKeepsIdentification ==
    [][ last'.op = "update_cache_moviedata" =>
            /\ directories' = directories
            /\ DOMAIN movies' = DOMAIN movies
            /\ \A id \in DOMAIN movies' : movies'[id].imdb_id = id
            /\ \A id \in last'.fetched :
                  id \notin provider.fetchable => movies'[id] = movies[id] ]_vars

\* A refresh whose lookup of a stale Movie failed: the Movie of the directory is
\* still the old one.
C15_Witness ==
    /\ last.op = "update_cache_moviedata"
    /\ \E id \in last.fetched :
          /\ id \notin provider.fetchable
          /\ id \in DOMAIN movies
          /\ movies[id].data_epoch < now
          /\ id \in Values(directories)

-----------------------------------------------------------------------------
(* Vanished directories and remembered basedirs.                           *)

\* C16: an update_cache run after a directory of the cache has vanished, in
\* whatever way, does not raise: a pass given no new basedirs, which lists only
\* the parents of the directories of the cache, never ends in an exception.
C16_VanishedDirectoryNoRaise ==
    [][ (pc = "update_cache_directories" /\ args.new_basedirs = {}) =>
            pc' # "crashed" ]_vars


\* C17, as stated: an update_cache given no basedirs lists every basedir given to
\* an earlier update_cache whose directories pass was completed.
C17_RootsRemembered ==
    [][ (last'.op = "update_cache" /\ args'.new_basedirs = {}) =>
            given \subseteq basedirs_left' ]_vars

\* C17, amended: update_cache lists the parents of the directories of the cache
\* and the basedirs it is given, so a basedir given earlier is listed again when
\* the cache holds a directory of it; and when the directories pass is over, with
\* the search step enabled and a provider that answers, every movie directory
\* that has a sibling in the cache, a name with a title and no hint file is in
\* the cache.
C17_BasedirsFromCache ==
    /\ [][ last'.op = "update_cache" =>
              /\ basedirs_left' = {d.parent : d \in DOMAIN directories} \cup args'.new_basedirs
              /\ \A b \in given :
                    (\E d \in DOMAIN directories : d.parent = b) => b \in basedirs_left' ]_vars
    /\ [][ ( /\ last'.op = "update_cache_moviedata"
             /\ ~args.skip_imdb_search
             /\ provider.search = "ok"
             /\ provider.fetchable = Ids ) =>
              \A d \in moviedirs_fs :
                  ( /\ \E e \in DOMAIN directories : e.parent = d.parent
                    /\ PTN_parse(d.name).title \in DOMAIN SearchResults
                    /\ HintIds(d) = {} ) => d \in DOMAIN directories ]_vars

\* A directory that was not in the cache has been identified in a pass given no
\* basedirs: it was found through the parent of a directory of the cache.
C17_Witness ==
    /\ ProcessedUnmapped
    /\ last.result
    /\ args.new_basedirs = {}
    /\ last.moviedir.parent \in given
    /\ \E e \in DOMAIN directories : e # last.moviedir /\ e.parent = last.moviedir.parent

-----------------------------------------------------------------------------
(* Duplicates.                                                             *)

\* C18: Cache.count returns the number of directories of the cache whose id is
\* the one asked for, and leaves the cache and the cache file as they are.
C18_CountIsNumberOfDirectories ==
    /\ [](\A imdb_id \in Ids :
            count(imdb_id) = Cardinality({d \in DOMAIN directories : directories[d] = imdb_id}))
    /\ [][ last'.op = "count" =>
              /\ last'.counter =
                    Cardinality({d \in DOMAIN directories : directories[d] = last'.imdb_id})
              /\ directories' = directories
              /\ movies' = movies
              /\ disk' = disk ]_vars

\* Counted: two directories of one id, while the cache holds none of the other id.
C18_Witness ==
    /\ last.op = "count"
    /\ last.counter = 2
    /\ \E imdb_id \in Ids : count(imdb_id) = 0
    /\ Cardinality(DOMAIN directories) = 2

-----------------------------------------------------------------------------
(* The symlink tree.                                                       *)

\* create_symlink_dirs has just returned: the cache is the one it has read.
Ran == last.op = "create_symlink_dirs"
Requested == {last.categories[i] : i \in DOMAIN last.categories}
MovieOfDir(d) == movies[directories[d]]

\* The directories of the cache whose movie has value v in the category.
Contributing(category, v) ==
    {d \in DOMAIN directories : v \in get_category(MovieOfDir(d), category)}

\* The directory of the tree is named text with the number of its entries.
Counted(path, text, unit) ==
    name(path) = countname(text, Cardinality(iterdir(symlinks, path)), unit)

\* The containers of value v: below the category directory, for people below
\* the directory of the first letter, with the count in each name.
ContainersOf(category, v) ==
    LET categorydir == Append(symlink_dir, <<category>>)
    IN  { n.path : n \in
            { n \in symlinks :
                /\ n.kind = "dir"
                /\ Counted(n.path, v, "movies")
                /\ IF category \in {"actors", "directors"}
                   THEN /\ parent(parent(n.path)) = categorydir
                        /\ Counted(parent(n.path), << v[1] >>, category)
                   ELSE parent(n.path) = categorydir } }

\* The links to movie directories inside the directory called text of a
\* container of value v.
LinksOf(category, v, text) ==
    { n \in symlinks :
        /\ n.kind = "link"
        /\ name(n.path) # <<"poster.jpg">>
        /\ \E c \in ContainersOf(category, v) : parent(n.path) = Append(c, text) }

TitleYear(movie) ==
    getattr(movie, "title") \o << " (", ToString(getattr(movie, "year")), ")" >>

\* The link leads to directory d, in the form asked for.
LeadsTo(n, d) ==
    IF last.relative
    THEN /\ ~n.absolute
         /\ n.target = relative_to(PathSeq(d), parent(n.path))
         /\ Resolved(n) = PathSeq(d)
    ELSE /\ n.absolute
         /\ n.target = PathSeq(d)

\* The directories that share the basename of d and its movie directory in the
\* container of v.
Colliding(category, v, d) ==
    { e \in Contributing(category, v) :
        e.name = d.name /\ dirname(MovieOfDir(e)) = dirname(MovieOfDir(d)) }

\* The first of a set of directories in the order of the dict.
First(S) ==
    CHOOSE d \in S : \A e \in S :
        (CHOOSE i \in DOMAIN last.order : last.order[i] = d)
            <= (CHOOSE i \in DOMAIN last.order : last.order[i] = e)

\* C19 as stated: when two directories map to one id, then for every value of the
\* movie in a requested category the movie's directory in the container of the
\* value holds one link per mapped directory, named after the directory's
\* basename and leading to that directory, wherever the directories are.
C19_BothCopiesAppear ==
    Ran =>
        \A d1, d2 \in DOMAIN directories :
            d1 # d2 /\ directories[d1] = directories[d2] =>
                \A category \in Requested :
                    \A v \in get_category(MovieOfDir(d1), category) :
                        \A d \in {d1, d2} :
                            \E n \in LinksOf(category, v, dirname(MovieOfDir(d))) :
                                name(n.path) = <<d.name>> /\ LeadsTo(n, d)

\* C19 as the code has it: the movie's directory holds one link per basename of
\* the mapped directories. Two copies with different basenames both appear; of
\* the copies that share a basename the first of the dict is the one linked.
C19_OneLinkPerBasename ==
    Ran =>
        \A d1, d2 \in DOMAIN directories :
            d1 # d2 /\ directories[d1] = directories[d2] =>
                \A category \in Requested :
                    \A v \in get_category(MovieOfDir(d1), category) :
                        LET links == LinksOf(category, v, dirname(MovieOfDir(d1)))
                        IN  /\ \A d \in {d1, d2} :
                                \E n \in links :
                                    /\ name(n.path) = <<d.name>>
                                    /\ LeadsTo(n, First(Colliding(category, v, d)))
                            /\ \A n, o \in links : n.path = o.path => n = o
                            /\ d1.name # d2.name =>
                                \E n, o \in links : LeadsTo(n, d1) /\ LeadsTo(o, d2)

\* Two copies of one movie under different basenames have been linked: the
\* movie's directory in the container of Comedy holds two links.
C19_Witness ==
    /\ Ran
    /\ \E d1, d2 \in DOMAIN directories :
           /\ d1.name # d2.name
           /\ directories[d1] = directories[d2]
           /\ Cardinality(LinksOf("genres", <<"Comedy">>, dirname(MovieOfDir(d1)))) = 2

\* C20 as stated: after create_symlink_dirs, for every mapped directory d with
\* record m and every value v of m in a requested category, a link named
\* basename(d) is in the directory "title (year)" of the container of v (named v
\* with the number of its movie directories, for people below the letter
\* directory named with the number of its entries); the link leads to d, as an
\* absolute target or as the path of d relative to the link's parent, which
\* resolves to d after the renames.
C20_LinkForEveryDirectory ==
    Ran =>
        \A d \in DOMAIN directories : \A category \in Requested :
            \A v \in get_category(MovieOfDir(d), category) :
                \E n \in LinksOf(category, v, TitleYear(MovieOfDir(d))) :
                    name(n.path) = <<d.name>> /\ LeadsTo(n, d)

\* C20 as the code has it: the movie's directory is named by Movie.dirname (the
\* separators of the title replaced), and the link named basename(d) leads to the
\* first directory of the dict with that basename and that movie directory: to d
\* itself when d is the only one.
C20_LinkForEveryBasename ==
    Ran =>
        \A d \in DOMAIN directories : \A category \in Requested :
            \A v \in get_category(MovieOfDir(d), category) :
                /\ Cardinality(ContainersOf(category, v)) = 1
                /\ \E n \in LinksOf(category, v, dirname(MovieOfDir(d))) :
                       /\ name(n.path) = <<d.name>>
                       /\ LeadsTo(n, First(Colliding(category, v, d)))
                       /\ Colliding(category, v, d) = {d} => LeadsTo(n, d)

\* Relative links have been made for the actors of a mapped copy of Commando,
\* two of them under one letter, and absolute ones are made as well.
C20_Witness ==
    /\ Ran
    /\ last.relative
    /\ "actors" \in Requested
    /\ \E d \in DOMAIN directories :
           /\ directories[d] = Commando
           /\ \E n \in LinksOf("actors", <<"A", "lyssa Milano">>, dirname(MovieOfDir(d))) :
                  /\ name(n.path) = <<d.name>>
                  /\ Len(n.target) = 7
                  /\ name(parent(parent(parent(n.path)))) = <<"A", " (", "2", " ", "actors", ")">>

-----------------------------------------------------------------------------
(* Oversized hint files.                                                   *)

\* Every file of the directory that holds an id is larger than 1 MiB.
OnlyBigHints(d) == \A f \in files[d] : f.id # None => f.big

\* C30: a hint file larger than 1 MiB is never read and never determines or
\* changes the id of a directory: when update_cache_directory runs on a directory
\* whose only files that hold an id are larger than 1 MiB, no id is taken from a
\* file, neither in the hint-file search nor in the check of a directory of the
\* cache, and the id of a directory of the cache stays as it is.
C30_BigHintNeverRead ==
    [][ \A d \in Moviedirs :
          ( /\ last'.op = "update_cache_directory"
            /\ last'.moviedir = d
            /\ OnlyBigHints(d) )
          => /\ last'.hint_id = None
             /\ last'.check_id = None
             /\ d \in DOMAIN directories => directories'[d] = directories[d] ]_vars

-----------------------------------------------------------------------------
(* The force-update option.                                                *)

\* C25: an update invoked with the force-update option fetches the metadata of
\* every Movie of the cache again, whatever the age of the Movie and whatever
\* the update-age-days threshold.
C25_ForceUpdateRefreshesAll ==
    [][ (last'.op = "update_cache_moviedata" /\ args.force_update) =>
            last'.fetched = DOMAIN movies ]_vars

-----------------------------------------------------------------------------
(* Purged directories.                                                     *)

\* cache_purge_directories has just returned, having removed directory d, which
\* is still on the filesystem.
Purged(d) ==
    /\ last.op = "cache_purge_directories"
    /\ d \in last.purged
    /\ d \in moviedirs_fs

-----------------------------------------------------------------------------
(* The rebuild of the tree.                                                *)

\* What the tree holds in and below a directory.
Below(tree, dir) == {n \in tree : IsUnder(n.path, dir)}

\* C21: regeneration of a category is clean-slate. After a complete run of
\* create_symlink_dirs, every category asked for holds exactly what the run
\* leaves on an empty symlink directory for the cache as it is: nothing of what
\* was there before remains, be it the tree of a run for another cache or the
\* partial, not yet renamed tree of a run that was killed at any step.
C21_CleanSlate ==
    Ran =>
        \A category \in Requested :
            Below(symlinks, Append(symlink_dir, <<category>>))
              = Below(create_symlink_dirs({}, last.order, last.categories, last.relative).tree,
                      Append(symlink_dir, <<category>>))

\* A complete run that started on what a killed run for another cache had left
\* in a category asked for, and that made links.
C21_Witness ==
    /\ Ran
    /\ building.built.start.partial
    /\ building.built.start.other_cache
    /\ \E n \in symlinks : n.kind = "link" /\ name(n.path) # <<"poster.jpg">>

\* C22: regenerating twice with an unchanged cache yields the same tree. A
\* complete run that is given what the complete run before it was given, on the
\* tree that run left, leaves that tree again: the same containers with the same
\* counts, the same movie directories, the same links with the same targets.
C22_SameTreeAgain ==
    [][ (last'.op = "create_symlink_dirs" /\ building.start.again)
            => symlinks' = building.built.tree ]_vars

\* The second of two complete runs on one cache, with links below letter
\* directories and a poster.
C22_Witness ==
    /\ Ran
    /\ building.built.start.again
    /\ "actors" \in Requested
    /\ \E n \in symlinks : n.kind = "link" /\ name(n.path) = <<"poster.jpg">>
    /\ \E n \in symlinks : n.kind = "link" /\ name(n.path) # <<"poster.jpg">>

\* The step is a round of the loop of create_symlinks_for_thing for directory d.
RoundOf(d) ==
    /\ pc = "create_symlink_dirs"
    /\ building.phase = "links"
    /\ building.moviedirs # << >>
    /\ Head(building.moviedirs) = d
    /\ last'.op # "killed"

\* Where the link of directory d goes in the directory of the thing of the run.
LinkpathOf(d) == thingdir_now \o << dirname(MovieOfDir(d)), <<d.name>> >>

\* The tree holds a link at the place of d's link that leads to directory e.
LinkedTo(tree, d, e) ==
    \E n \in tree :
        /\ n.path = LinkpathOf(d)
        /\ n.kind = "link"
        /\ n.target = relative_to(PathSeq(e), parent(n.path))

\* C27: when the round of a directory finds a link of its basename already in
\* the movie's directory, made for another mapped directory of the same movie
\* with the same basename, the round leaves the tree as it is (the link keeps
\* its target, no second link is made) and the run goes on without an error.
C27_ExistingLinkUntouched ==
    [][ \A d, e \in DOMAIN directories :
          ( /\ RoundOf(d)
            /\ e # d
            /\ e.name = d.name
            /\ directories[e] = directories[d]
            /\ building.thing \in get_category(MovieOfDir(d), category_now)
            /\ LinkedTo(symlinks, d, e) )
          => /\ symlinks' = symlinks
             /\ pc' = "create_symlink_dirs"
             /\ last'.op = "link" ]_vars

\* The round of the second copy is over and the link leads to the first copy.
C27_Witness ==
    /\ last.op = "link"
    /\ building.phase = "links"
    /\ \E e \in DOMAIN directories :
          /\ e # last.moviedir
          /\ e.name = last.moviedir.name
          /\ directories[e] = directories[last.moviedir]
          /\ LinkedTo(symlinks, last.moviedir, e)
          /\ ~LinkedTo(symlinks, last.moviedir, last.moviedir)

-----------------------------------------------------------------------------
(* Categories without values.                                              *)

\* The step asks get_category_values for the things of the category.
AsksValues ==
    /\ pc = "create_symlink_dirs"
    /\ building.phase = "walk"
    /\ removable(symlinks, categorydir_now) = {}
    /\ last'.op # "killed"

\* C24: asking for a category that is neither an attribute of a Movie nor
\* runtime yields an empty set of values and an empty category directory: it is
\* not an error and the run goes on.
C24_UnknownCategoryIsEmpty ==
    [][ (AsksValues /\ category_now \notin MovieAttributes \cup {"runtime"})
            => /\ pc' = "create_symlink_dirs"
               /\ building'.phase = "things"
               /\ building'.things = {}
               /\ iterdir(symlinks', categorydir_now) = {} ]_vars

\* C29: a Movie whose optional attribute is None (top_ranking, bottom_ranking,
\* directors, actors) contributes no value to the category: get_category gives
\* the empty list for it, and no container is made for the absent value, so a
\* category that is None for every Movie stays empty after a complete run.
C29_AbsentContributesNothing ==
    Ran =>
        \A category \in Requested :
            /\ \A id \in DOMAIN movies :
                  is_none(movies[id], category) => get_category(movies[id], category) = {}
            /\ (\A id \in DOMAIN movies : is_none(movies[id], category))
                  => iterdir(symlinks, Append(symlink_dir, <<category>>)) = {}

-----------------------------------------------------------------------------
(* Movies of one title and year.                                           *)

\* The ids of the mapped directories whose movie has value v in the category.
MoviesWith(category, v) == {directories[d] : d \in Contributing(category, v)}

\* C28: after a complete run, the container of every value that a mapped movie
\* has in a category asked for holds one movie directory for each distinct id
\* with that value, so the number in the container's name is the number of
\* those ids, also when two of the ids have the same title and year.
C28_OneDirectoryPerId ==
    Ran =>
        \A category \in Requested :
            \A v \in get_category_values(category) :
                Contributing(category, v) # {} =>
                    /\ ContainersOf(category, v) # {}
                    /\ \A c \in ContainersOf(category, v) :
                          Cardinality(iterdir(symlinks, c))
                            = Cardinality(MoviesWith(category, v))

-----------------------------------------------------------------------------
(* The posters.                                                            *)

\* The type of poster.jpg that the mode asks for.
PosterOfMode(save_covers_in_moviedirs) ==
    IF save_covers_in_moviedirs THEN "file" ELSE "symlink"

\* The step is a download_covers whose downloads went well: distribute_covers
\* has run, to its end or into an exception.
Distributes ==
    /\ pc = "idle"
    /\ last'.op \in {"download_covers", "FileExistsError", "FileNotFoundError"}

\* C23: after distribute_covers in a mode, every mapped directory whose movie
\* has a cover in the cache has a poster.jpg of the type of the mode (a symlink,
\* or a regular file when covers are saved in movie directories), whatever
\* poster.jpg was before: absent, a regular file, a valid symlink or a dangling
\* one.
C23_PosterOfModeType ==
    [][ Distributes
          => /\ last'.op = "download_covers"
             /\ \A d \in DOMAIN directories :
                   directories[d] \in covers'
                     => posters'[d] = PosterOfMode(last'.save_covers_in_moviedirs) ]_vars

-----------------------------------------------------------------------------
(* Save and load.                                                          *)

\* C31: save followed by load is the identity on the cache. In every state,
\* write_cache_file of the cache in memory followed by read_cache_file of a fresh
\* Cache on the same cache directory does not raise and gives the same
\* directories (same paths, same ids) and the same Movies, field for field.
C31_SaveLoadIdentity ==
    LET saved == write_cache_file(disk, directories, movies)
        fresh == loaded(saved[cachefile_name])
    IN  /\ ~fresh.raised
        /\ fresh.directories = directories
        /\ fresh.movies = movies
        /\ \A id \in DOMAIN movies : asdict(fresh.movies[id]) = asdict(movies[id])

\* A fresh Cache has read the file that holds the cache of two directories and
\* two Movies fetched at different times.
C31_Witness ==
    /\ last.op = "read_cache_file"
    /\ cachefile = File(moviejson(directories, movies))
    /\ Cardinality(DOMAIN directories) >= 2
    /\ \E a, b \in DOMAIN movies : movies[a].data_epoch # movies[b].data_epoch

\* ---------------------------------------------------------------------------
\* Referential integrity
\* ---------------------------------------------------------------------------

Dangling == {d \in DOMAIN directories : directories[d] \notin DOMAIN movies}

\* C32: from an empty cache, after every identification, refresh, clean pass,
\* cache_purge_ids and cache_purge_directories, the id of every directory of
\* the cache has a Movie in the cache.
C32_ReferentialIntegrity == Dangling = {}

C32_Witness ==
    /\ last.op = "cache_purge_directories"
    /\ last.purged # {}
    /\ directories # EmptyMap
    /\ \E id \in DOMAIN movies : id \notin Values(directories)

\* ---------------------------------------------------------------------------
\* Identification and the Movies of the cache
\* ---------------------------------------------------------------------------

Replaced == {id \in DOMAIN movies \cap DOMAIN movies' : movies'[id] # movies[id]}

\* C33: update_cache_directory leaves every Movie of the cache as it is, fetch
\* timestamp included; when the directory resolves to an id that has a Movie,
\* the step writes the mapping of the directory and nothing else of the cache.
\* Within a process only update_cache_moviedata puts another Movie under an id
\* of the cache (read_cache_file is the load of the cache by a new process).
C33_IdentificationKeepsMovies ==
    [][ /\ last'.op = "update_cache_directory" =>
              \A id \in DOMAIN movies : id \in DOMAIN movies' /\ movies'[id] = movies[id]
        /\ ( /\ last'.op = "update_cache_directory"
             /\ last'.wrote
             /\ directories'[last'.moviedir] \in DOMAIN movies ) =>
              /\ movies' = movies
              /\ directories' =
                    Put(directories, last'.moviedir, directories'[last'.moviedir])
              /\ disk' = write_cache_file(disk, directories', movies)
        /\ Replaced # {} => last'.op \in {"update_cache_moviedata", "read_cache_file"}
      ]_vars

C33_Witness ==
    /\ last.op = "update_cache_directory"
    /\ last.wrote
    /\ last.fetched = {directories[last.moviedir]}
    /\ movies[directories[last.moviedir]].data_epoch < now
    /\ \E d \in DOMAIN directories :
          d # last.moviedir /\ directories[d] = directories[last.moviedir]

\* ---------------------------------------------------------------------------
\* Containers and the Movies without a directory
\* ---------------------------------------------------------------------------

\* The purges of the command line followed by one run of create_symlink_dirs,
\* from the caches of InitRebuild.
NextPurged ==
    \/ CachePurgeDirectories
    \/ CachePurgeIds
    \/ CreateSymlinkDirs
    \/ Restart

SpecPurged == InitRebuild /\ [][NextPurged]_vars

EmptyContainers ==
    { c \in UNION { ContainersOf(category, v) :
                      category \in Requested, v \in UNION {get_category_values(k) : k \in Requested} } :
        iterdir(symlinks, c) = {} }

\* C34: after create_symlink_dirs every container directory of the tree holds
\* at least one movie, in every state of the cache, the states where a Movie
\* has no directory included.
C34_NoEmptyContainer == Ran => EmptyContainers = {}
====
